---- MODULE Spec2Model ----
(***************************************************************************)
(* Period-keyed persistence of the "Juego de Empresas" forms: the company, *)
(* decision and financial_statement tables and the handlers of the forms   *)
(* that read and write them.                                               *)
(*                                                                         *)
(* Python text is a sequence of one-character strings, a Python float is   *)
(* an integer number of tenths, and a stored row is the JSON text that     *)
(* json.dumps produced (number literals are character sequences).          *)
(***************************************************************************)
EXTENDS Integers, Sequences, FiniteSets, TLC

(***************************************************************************)
(* Bounds of the model.                                                    *)
(***************************************************************************)
MaxCompanies == 2
MaxPeriod == 1
MaxWrites == 2
NumCountries == 1

(***************************************************************************)
(* Python values.                                                          *)
(***************************************************************************)
PyNone == [k |-> "none"]
PyFloat(n) == [k |-> "float", v |-> n]
PyStr(s) == [k |-> "str", s |-> s]
PyDict(f) == [k |-> "dict", d |-> f]
Raise(e) == [k |-> "raise", exc |-> e]
EmptyDict == PyDict(<<>>)

IsNone(x) == x.k = "none"
IsFloat(x) == x.k = "float"
IsStr(x) == x.k = "str"
IsDict(x) == x.k = "dict"
IsRaise(x) == x.k = "raise"

\* dict.get(key, default)
DictGet(x, key, default) == IF key \in DOMAIN x.d THEN x.d[key] ELSE default

(***************************************************************************)
(* Text.                                                                   *)
(***************************************************************************)
Digits == <<"0", "1", "2", "3", "4", "5", "6", "7", "8", "9">>
UpperCase == <<"A","B","C","D","E","F","G","H","I","J","K","L","M",
               "N","O","P","Q","R","S","T","U","V","W","X","Y","Z">>
LowerCase == <<"a","b","c","d","e","f","g","h","i","j","k","l","m",
               "n","o","p","q","r","s","t","u","v","w","x","y","z">>

DigitValue == [ch \in {Digits[i] : i \in 1..10} |-> (CHOOSE i \in 1..10 : Digits[i] = ch) - 1] @@ <<>>

RECURSIVE StrReplace(_, _, _)
\* str.replace(old, new) for a one-character old
StrReplace(s, old, new) ==
    IF s = <<>> THEN <<>>
    ELSE (IF Head(s) = old THEN new ELSE <<Head(s)>>) \o StrReplace(Tail(s), old, new)

RECURSIVE NatStr(_)
\* str(n) for a natural number
NatStr(n) == IF n < 10 THEN <<Digits[n + 1]>> ELSE NatStr(n \div 10) \o <<Digits[(n % 10) + 1]>>

RECURSIVE DigitsVal(_, _, _)
\* value of the run of digits s[from..to]
DigitsVal(s, from, to) ==
    IF to < from THEN 0 ELSE DigitsVal(s, from, to - 1) * 10 + DigitValue[s[to]]

\* float(text): the value in tenths, or ValueError
FloatOfStr(s) ==
    LET dots == {i \in 1..Len(s) : s[i] = "."} IN
    IF Cardinality(dots) > 1 THEN Raise("ValueError")
    ELSE LET dot == IF dots = {} THEN Len(s) + 1 ELSE CHOOSE i \in dots : TRUE
         IN IF Len(s) = 0 \/ (Len(s) = 1 /\ dot = 1) \/ \E i \in 1..Len(s) : i # dot /\ s[i] \notin DOMAIN DigitValue
            THEN Raise("ValueError")
            ELSE PyFloat(DigitsVal(s, 1, dot - 1) * 10 + (IF dot < Len(s) THEN DigitValue[s[dot + 1]] ELSE 0))

\* repr(x) / str(x) of a float
FloatRepr(n) == NatStr(n \div 10) \o <<".">> \o <<Digits[(n % 10) + 1]>>

\* float(x) of any Python value
PyFloatOf(x) ==
    CASE IsFloat(x) -> x
      [] IsStr(x) -> FloatOfStr(x.s)
      [] OTHER -> Raise("TypeError")

\* str(x) of a scalar Python value
PyStrOf(x) ==
    CASE IsFloat(x) -> FloatRepr(x.v)
      [] IsStr(x) -> x.s
      [] IsNone(x) -> <<"N", "o", "n", "e">>
      [] OTHER -> <<"{", "}">>

(***************************************************************************)
(* JSON text.                                                              *)
(***************************************************************************)
Malformed == [j |-> "malformed"]

RECURSIVE json_dumps(_)
\* the mutation: numbers are written as strings
json_dumps_numbers_quoted(x) ==
    CASE IsNone(x) -> [j |-> "null"]
      [] IsFloat(x) -> [j |-> "str", lit |-> FloatRepr(x.v)]
      [] IsStr(x) -> [j |-> "str", lit |-> x.s]
      [] IsDict(x) -> [j |-> "obj", m |-> [q \in DOMAIN x.d |-> json_dumps(x.d[q])]]
\* json.dumps
json_dumps(x) ==
    CASE IsNone(x) -> [j |-> "null"]
      [] IsFloat(x) -> [j |-> "num", lit |-> FloatRepr(x.v)]
      [] IsStr(x) -> [j |-> "str", lit |-> x.s]
      [] IsDict(x) -> [j |-> "obj", m |-> [q \in DOMAIN x.d |-> json_dumps(x.d[q])]]

RECURSIVE json_loads(_)
\* json.loads
json_loads(t) ==
    CASE t.j = "malformed" -> Raise("JSONDecodeError")
      [] t.j = "null" -> PyNone
      [] t.j = "num" -> FloatOfStr(t.lit)
      [] t.j = "str" -> PyStr(t.lit)
      [] t.j = "obj" -> PyDict([q \in DOMAIN t.m |-> json_loads(t.m[q])])

(***************************************************************************)
(* Labels and field keys of the forms.                                     *)
(***************************************************************************)
AllCountries == << <<"A","r","g","e","n","t","i","n","a">>, <<"B","r","a","s","i","l">>,
                   <<"C","h","i","l","e">>, <<"C","o","l","o","m","b","i","a">>,
                   <<"M","e","x","i","c","o">> >>
\* the countries of the forms, cut to the first NumCountries
countries == {AllCountries[i] : i \in 1..NumCountries}
Home == <<"h","o","m","e">>

item_productos_terminados == <<"P","r","o","d","u","c","t","o","s"," ","T","e","r","m","i","n","a","d","o","s">>
\* the rows of the previous-period form that the model follows
items == {item_productos_terminados, <<"P","l","á","s","t","i","c","o","s">>}
item_stock_key_base == <<"S","t","o","c","k","_","P","e","r","í","o","d","o","_","A","n","t","e","r","i","o","r">>

\* f"{a}_{b}_{c}"
Key3(a, b, c) == a \o <<"_">> \o b \o <<"_">> \o c

\* _clean_key of the summary and projected-sales forms
_clean_key(text) ==
    StrReplace(StrReplace(StrReplace(StrReplace(text, " ", <<"_">>), "(", <<>>), ")", <<>>), "-", <<"_">>)

\* _normalize_key of the previous-period form
_normalize_key(key) ==
    LET r1 == StrReplace(key, " ", <<"_">>)
        r2 == StrReplace(r1, "/", <<"_">>)
        r3 == StrReplace(r2, ".", <<"_">>)
        r4 == StrReplace(r3, ":", <<>>)
        r5 == StrReplace(r4, "-", <<"_">>)
        r6 == StrReplace(r5, "\"", <<>>)
        r7 == StrReplace(r6, "'", <<>>)
        r8 == StrReplace(r7, "ó", <<"o">>)
        r9 == StrReplace(r8, "é", <<"e">>)
        r10 == StrReplace(r9, "á", <<"a">>)
        r11 == StrReplace(r10, "í", <<"i">>)
        r12 == StrReplace(r11, "ú", <<"u">>)
        r13 == StrReplace(r12, "ñ", <<"n">>)
        r14 == StrReplace(r13, "(", <<>>)
        r15 == StrReplace(r14, ")", <<>>)
    \* .lower()
    IN [i \in 1..Len(r15) |->
            IF \E u \in 1..26 : UpperCase[u] = r15[i]
            THEN LowerCase[CHOOSE u \in 1..26 : UpperCase[u] = r15[i]]
            ELSE r15[i]]

\* the (product line, country) pairs of the forms
Pairs == { <<"h","o","m","e">>, <<"p","r","o">> } \X countries

\* a table of keys, computed once
Table(f) == f @@ <<>>

\* keys of the summary form, by pair: display_vars (stock) and entry_vars (OU)
SummaryDisplayKey == Table([x \in Pairs |-> Key3(x[1], _clean_key(<<"S","t","o","c","k"," ","P","e","r","í","o","d","o"," ","A","n","t","e","r","i","o","r">>), _clean_key(x[2]))])
SummaryEntryKey == Table([x \in Pairs |-> Key3(x[1], _clean_key(<<"O","U">>), _clean_key(x[2]))])
SummaryDisplayKeys == {SummaryDisplayKey[x] : x \in Pairs}
SummaryEntryKeys == {SummaryEntryKey[x] : x \in Pairs}
\* keys of the previous-period form, by pair and row: entry_vars
PrevEntryKey == Table([x \in Pairs, it \in items |-> Key3(x[1], _normalize_key(it), _normalize_key(x[2]))])
PrevEntryKeys == {PrevEntryKey[x, it] : x \in Pairs, it \in items}
\* keys of the projected-sales form, by pair
ProjTdKey == Table([x \in Pairs |-> Key3(x[1], <<"t","d">>, _clean_key(x[2]))])
ProjEsKey == Table([x \in Pairs |-> Key3(x[1], <<"e","s">>, _clean_key(x[2]))])
ProjTotalKey == Table([x \in Pairs |-> Key3(x[1], <<"t","o","t","a","l","_","p","a","i","s">>, _clean_key(x[2]))])
ProjStockKey == Table([x \in Pairs |-> Key3(x[1], item_stock_key_base, _clean_key(x[2]))])
ProjEntryKeys == {ProjTdKey[x] : x \in Pairs} \cup {ProjEsKey[x] : x \in Pairs}

(***************************************************************************)
(* State: the tables of captop.db, the state the last handler left in the  *)
(* user interface, and the number of save handlers run so far; then the    *)
(* company and period selected in the main menu (current_company_id 0 is   *)
(* None), and per running program ("process") the document its form has    *)
(* read and not yet written back and the connections it has not closed.    *)
(***************************************************************************)
VARIABLES company, decision, financial_statement, schema, ui, writes,
          menu, proc, system_control

vars == <<company, decision, financial_statement, schema, ui, writes, menu, proc, system_control>>

\* the CREATE TABLE IF NOT EXISTS statements of each schema initializer, in the
\* order they are executed
SchemaTables ==
    [main1 |-> <<"company", "decision", "financial_statement">>,
     db |-> <<"company", "factory", "inventory", "decision", "ledger", "financial_statement">>,
     homeprofessional |-> <<"company", "decision">>,
     resumenjuego1 |-> <<"company", "decision">>,
     ventaproyectada |-> <<"company", "decision">>]

RECURSIVE init_schema(_, _, _)
\* the mutation: CREATE TABLE without IF NOT EXISTS, and the table is made again
init_schema_plain_create(tables, module, n) ==
    IF n = 0 THEN tables
    ELSE Append(init_schema(tables, module, n - 1), [name |-> SchemaTables[module][n], by |-> module])
\* the first n statements of the initializer of a module, run over the tables
\* the database has: a table that exists keeps the definition it was made with
init_schema(tables, module, n) ==
    IF n = 0 THEN tables
    ELSE LET before == init_schema(tables, module, n - 1)
             name == SchemaTables[module][n]
         IN IF \E i \in 1..Len(before) : before[i].name = name THEN before
            ELSE Append(before, [name |-> name, by |-> module])

\* the names typed into the "new company" field: a name already stored, or
\* the next new one while fewer than MaxCompanies are stored
CompanyNames ==
    {<<"Acme", "Beta", "Cora", "Delta">>[i] :
        i \in 1..(IF Len(company) < MaxCompanies THEN Len(company) + 1 ELSE MaxCompanies)}
\* the period combo box of the main menu, cut to 0..MaxPeriod
Periods == 0..MaxPeriod
\* ids of the stored companies (AUTOINCREMENT: the row number)
CompanyIds == 1..Len(company)

StartingCash == 100000
DefaultExchangeRate == 950
InitialPeriod == 0

HasRow(table, key) == key \in DOMAIN table
\* the mutation: the table is left with the written row alone
ReplaceInto_alone(table, key, text) == [q \in {key} |-> text]
\* REPLACE INTO table (key, text)
ReplaceInto(table, key, text) ==
    [q \in (DOMAIN table) \cup {key} |-> IF q = key THEN text ELSE table[q]]

UiState(op, c, p, ret) == [op |-> op, c |-> c, p |-> p, ret |-> ret]

Init ==
    /\ company = <<>>
    /\ decision = <<>>
    /\ financial_statement = <<>>
    \* CompanyModel.__init__ has run _init_schema over the new database file
    /\ schema = init_schema(<<>>, "main1", Len(SchemaTables["main1"]))
    /\ ui = UiState("none", 0, 0, PyNone)
    /\ writes = 0
    \* MainMenu.__init__: current_company_id = None, current_period = IntVar(0)
    /\ menu = [current_company_id |-> 0, current_period |-> 0]
    \* two running copies of the program: 1 will open the loan form, 2 the
    \* advertising form; neither has a form or a connection yet
    /\ proc = [i \in 1..2 |-> [pc |-> "idle", c |-> 0, p |-> 0, seen |-> PyNone, payload |-> PyNone, open |-> 0]]
    /\ system_control = <<>>

(***************************************************************************)
(* Company registry (main1.py).                                            *)
(***************************************************************************)
\* CompanyModel.create_company: INSERT, IntegrityError on a duplicate name
create_company(name) ==
    LET duplicate == \E i \in 1..Len(company) : company[i].name = name IN
    /\ company' = IF duplicate THEN company
                  ELSE Append(company, [name |-> name, cash_usd |-> StartingCash,
                                        current_period |-> InitialPeriod,
                                        reporting_currency_exchange_rate |-> DefaultExchangeRate])
    /\ ui' = UiState("create_company", 0, 0, ~duplicate)
    /\ UNCHANGED <<menu, proc, system_control, schema, decision, financial_statement, writes>>

(***************************************************************************)
(* Field coercions of the forms.                                           *)
(***************************************************************************)
\* _get_numeric_value of ventaproyectada, resumenjuego1, datosperiodoanterior
_get_numeric_value(value_str) ==
    IF value_str = <<>> THEN PyNone
    ELSE LET f == FloatOfStr(StrReplace(value_str, ",", <<".">>))
         IN IF IsRaise(f) THEN PyNone ELSE f

\* _get_numeric_value of prestamo and publicidad
_get_numeric_value_loan(value_str) ==
    IF value_str = <<>> THEN PyNone
    ELSE LET f == FloatOfStr(StrReplace(value_str, ",", <<>>))
         IN IF IsRaise(f) THEN PyNone ELSE f

\* float(var.get() or 0.0), the text itself on ValueError (caja)
CashFlowField(text) ==
    IF text = <<>> THEN PyFloat(0)
    ELSE LET f == FloatOfStr(text) IN IF IsRaise(f) THEN PyStr(text) ELSE f

(***************************************************************************)
(* Decision store: the read-merge-write of one section.                    *)
(***************************************************************************)
\* SELECT payload ... ; json.loads(row["payload"]) if row, else the default
LoadPayload(c, p, default) ==
    IF HasRow(decision, <<c, p>>) THEN json_loads(decision[<<c, p>>]) ELSE default

\* payload[section] = data; TypeError when the payload is not a dict
SetSection(payload, section, data) ==
    IF IsRaise(payload) THEN payload
    ELSE IF ~IsDict(payload) THEN Raise("TypeError")
    ELSE PyDict([q \in (DOMAIN payload.d) \cup {section} |->
                    IF q = section THEN data ELSE payload.d[q]])

\* the mutation: INSERT OR IGNORE, the row of the pair is kept when there is one
StoreDecision_keep_first(c, p, payload) ==
    IF IsRaise(payload) \/ HasRow(decision, <<c, p>>) THEN decision
    ELSE ReplaceInto(decision, <<c, p>>, json_dumps(payload))
\* REPLACE INTO decision ... json.dumps(payload), unless an exception came first
StoreDecision(c, p, payload) ==
    IF IsRaise(payload) THEN decision
    ELSE ReplaceInto(decision, <<c, p>>, json_dumps(payload))

(***************************************************************************)
(* Cash flow (caja.py).  The form is followed through one entry field.     *)
(***************************************************************************)
CashFlowEntryKey == "ingresos_est_Cobranza_Cuentas_por_Cobrar"

\* CashFlowUI.save_cash_flow, with CashFlowModel.save_cash_flow
CashFlowUI_save_cash_flow(c, p, raw) ==
    LET cash_flow_data == PyDict([q \in {CashFlowEntryKey} |-> CashFlowField(raw)])
        \* CashFlowModel.save_cash_flow: the payload written, or the exception caught
        payload == SetSection(LoadPayload(c, p, EmptyDict), "cash_flow_data", cash_flow_data)
    IN /\ writes < MaxWrites
       /\ decision' = StoreDecision(c, p, payload)
       /\ ui' = UiState("save_cash_flow", 0, 0, ~IsRaise(payload))
       /\ writes' = writes + 1
       /\ UNCHANGED <<menu, proc, system_control, schema, company, financial_statement>>

\* the mutation: the whole document is handed back when it has no such section
load_cash_flow_whole_document(c, p) ==
    IF HasRow(decision, <<c, p>>)
    THEN LET payload == json_loads(decision[<<c, p>>])
         IN IF IsDict(payload) THEN DictGet(payload, "cash_flow_data", payload) ELSE PyNone
    ELSE PyNone
\* CashFlowModel.load_cash_flow: the section, {} without section, None without row
load_cash_flow(c, p) ==
    IF HasRow(decision, <<c, p>>)
    THEN LET payload == json_loads(decision[<<c, p>>])
         IN IF IsDict(payload) THEN DictGet(payload, "cash_flow_data", EmptyDict) ELSE PyNone
    ELSE PyNone

(***************************************************************************)
(* Previous-period data (datosperiodoanterior.py).                         *)
(***************************************************************************)
\* PreviousPeriodDataUI.save_data: the user typed raw into the finished-goods
\* field of one product line and country and left the other fields empty
PreviousPeriodDataUI_save_data(c, p, pt, co, raw) ==
    LET typed == PrevEntryKey[<<pt, co>>, item_productos_terminados]
        previous_period_data ==
            PyDict([q \in PrevEntryKeys |-> _get_numeric_value(IF q = typed THEN raw ELSE <<>>)])
        \* PreviousPeriodModel.save_previous_period_data
        payload == SetSection(LoadPayload(c, p, EmptyDict), "previous_period_data", previous_period_data)
    IN /\ writes < MaxWrites
       /\ decision' = StoreDecision(c, p, payload)
       /\ ui' = UiState("save_previous_period_data", 0, 0, ~IsRaise(payload))
       /\ writes' = writes + 1
       /\ UNCHANGED <<menu, proc, system_control, schema, company, financial_statement>>

(***************************************************************************)
(* Loans and advertising (prestamo.py, publicidad.py): load_decision and   *)
(* save_decision of DatabaseManager, called one after the other.           *)
(***************************************************************************)
\* x or {}
OrEmptyDict(x) == IF IsNone(x) \/ (IsDict(x) /\ DOMAIN x.d = {}) THEN EmptyDict ELSE x

\* LoanDecisionsUI._save_data: load_decision(...) or {}, the section set, save_decision
LoanDecisionsUI_save_data(c, p, raw) ==
    LET loan_decisions_data ==
            PyDict([q \in {"long_term_amount", "loan_term", "grace_period",
                          "short_term_amount", "credit_line_amount"} |->
                _get_numeric_value_loan(IF q = "long_term_amount" THEN raw ELSE <<>>)])
        payload == SetSection(OrEmptyDict(LoadPayload(c, p, PyNone)), "loan_decisions", loan_decisions_data)
    IN /\ writes < MaxWrites
       /\ decision' = StoreDecision(c, p, payload)
       /\ ui' = UiState("save_loan", 0, 0, ~IsRaise(payload))
       /\ writes' = writes + 1
       /\ UNCHANGED <<menu, proc, system_control, schema, company, financial_statement>>

\* AdvertisingUI._save_data: load_decision(...) or {}, the section set, save_decision
AdvertisingUI_save_data(c, p, raw) ==
    LET advertising_data == PyDict([q \in {"advertising_Revista_PC_Actualidad_Argentina"} |-> _get_numeric_value_loan(raw)])
        payload == SetSection(OrEmptyDict(LoadPayload(c, p, PyNone)), "advertising_decisions", advertising_data)
    IN /\ writes < MaxWrites
       /\ decision' = StoreDecision(c, p, payload)
       /\ ui' = UiState("save_advertising", 0, 0, ~IsRaise(payload))
       /\ writes' = writes + 1
       /\ UNCHANGED <<menu, proc, system_control, schema, company, financial_statement>>

(***************************************************************************)
(* Market research (investigacionmercado.py) and product decisions         *)
(* (homeprofessional.py): the payload is built from the form alone.        *)
(***************************************************************************)
ProductEntryKey == "price_credit_cond1_Argentina_TD"

\* MarketResearchUI._save_data: data = {"market_research": fields} is handed to
\* save_decision as the payload
MarketResearchUI_save_data(c, p, raw) ==
    LET fields == PyDict([q \in {"mr_IM_1a_Potencial_Continente_para_1_Período_Home"} |-> PyStr(raw)])
        payload == PyDict([q \in {"market_research"} |-> fields])
    IN /\ writes < MaxWrites
       /\ decision' = StoreDecision(c, p, payload)
       /\ ui' = UiState("save_market_research", 0, 0, TRUE)
       /\ writes' = writes + 1
       /\ UNCHANGED <<menu, proc, system_control, schema, company, financial_statement>>

\* ProductUI._save_data: float(value) if value else 0.0 (the text itself on
\* ValueError), BusinessGameModel.save_decisions, then increment_period
ProductUI_save_data(c, p, raw) ==
    LET f == FloatOfStr(raw)
        value == IF raw = <<>> THEN PyFloat(0) ELSE IF IsRaise(f) THEN PyStr(raw) ELSE f
        payload == PyDict([q \in {ProductEntryKey} |-> value])
    IN /\ writes < MaxWrites
       /\ decision' = StoreDecision(c, p, payload)
       /\ company' = [company EXCEPT ![c].current_period = @ + 1]
       /\ ui' = UiState("save_product", 0, 0, TRUE)
       /\ writes' = writes + 1
       /\ UNCHANGED <<menu, proc, system_control, schema, financial_statement>>

(***************************************************************************)
(* Summary form (resumenjuego1.py).  ui.ret holds display_vars (the        *)
(* read-only "Stock Período Anterior" labels) of the open form.            *)
(***************************************************************************)
Zero == <<"0">>
ClearedDisplay == [q \in SummaryDisplayKeys |-> Zero]

\* the keys load_decisions_from_db looks up in previous_period_data (db_key)
\* and sets in display_vars (ui_key), by pair
SummaryDbKey ==
    Table([q \in SummaryDisplayKeys |->
        LET x == CHOOSE x \in Pairs : Key3(x[1], item_stock_key_base, _clean_key(x[2])) = q
        IN Key3(x[1], <<"P","r","o","d","u","c","t","o","s","_","T","e","r","m","i","n","a","d","o","s">>,
                _clean_key(x[2]))])

\* CompanySummaryUI.load_decisions_from_db: display_vars, and whether an error
\* was shown.  The stock labels come from period - 1, then the fields found in
\* summary_data of the current period are set.
summary_load_decisions_from_db(c, current_period) ==
    LET previous_period == current_period - 1
        first ==
            IF previous_period < 0 THEN [display |-> ClearedDisplay, err |-> FALSE]
            ELSE IF ~HasRow(decision, <<c, previous_period>>)
            \* the else branch reads the local "countries" before it is assigned
            THEN [display |-> ClearedDisplay, err |-> TRUE]
            ELSE LET prev_payload == json_loads(decision[<<c, previous_period>>])
                     loaded_prev_data == IF IsDict(prev_payload)
                                         THEN DictGet(prev_payload, "previous_period_data", EmptyDict)
                                         ELSE Raise("AttributeError")
                 IN IF ~IsDict(loaded_prev_data) THEN [display |-> ClearedDisplay, err |-> TRUE]
                    ELSE [display |->
                            [q \in SummaryDisplayKeys |->
                                LET db_key == SummaryDbKey[q]
                                IN IF db_key \in DOMAIN loaded_prev_data.d /\ ~IsNone(loaded_prev_data.d[db_key])
                                   THEN PyStrOf(loaded_prev_data.d[db_key])
                                   ELSE Zero],
                          err |-> FALSE]
    IN IF first.err \/ ~HasRow(decision, <<c, current_period>>) THEN first
       ELSE LET current_payload == json_loads(decision[<<c, current_period>>])
                loaded_summary_data == IF IsDict(current_payload)
                                       THEN DictGet(current_payload, "summary_data", EmptyDict)
                                       ELSE Raise("AttributeError")
            IN IF ~IsDict(loaded_summary_data) THEN [display |-> first.display, err |-> TRUE]
               ELSE [display |->
                       [q \in SummaryDisplayKeys |->
                           IF q \in DOMAIN loaded_summary_data.d /\ ~IsNone(loaded_summary_data.d[q])
                           THEN PyStrOf(loaded_summary_data.d[q])
                           ELSE first.display[q]],
                     err |-> FALSE]

\* opening the form, or its "Cargar Decisiones" button
CompanySummaryUI_load_decisions_from_db(c, p) ==
    /\ ui' = UiState("summary_form", c, p, summary_load_decisions_from_db(c, p))
    /\ UNCHANGED <<menu, proc, system_control, schema, company, decision, financial_statement, writes>>

\* CompanySummaryUI.save_decisions: the user typed raw into the OU field of
\* the home line of one country and left the other OU fields empty
CompanySummaryUI_save_decisions(co, raw) ==
    LET typed == SummaryEntryKey[<<Home, co>>]
        summary_data ==
            PyDict([q \in SummaryEntryKeys \cup SummaryDisplayKeys |->
                IF q \in SummaryEntryKeys
                THEN _get_numeric_value(IF q = typed THEN raw ELSE <<>>)
                ELSE _get_numeric_value(ui.ret.display[q])])
        payload == SetSection(LoadPayload(ui.c, ui.p, EmptyDict), "summary_data", summary_data)
    IN /\ ui.op = "summary_form"
       /\ writes < MaxWrites
       /\ decision' = StoreDecision(ui.c, ui.p, payload)
       /\ writes' = writes + 1
       /\ UNCHANGED <<menu, proc, system_control, schema, company, financial_statement, ui>>

(***************************************************************************)
(* Projected sales (ventaproyectada.py, Consulta/c_ventaproyectada.py).    *)
(* ui.ret holds stock_anterior_values, entry_vars and calculated_vars of   *)
(* the open form.                                                          *)
(***************************************************************************)
RECURSIVE CommaStr(_)
\* the integer part of f"{x:,.2f}"
CommaStr(n) ==
    IF n < 1000 THEN NatStr(n)
    ELSE CommaStr(n \div 1000) \o <<",">>
         \o <<Digits[((n % 1000) \div 100) + 1], Digits[((n % 100) \div 10) + 1], Digits[(n % 10) + 1]>>

\* f"{x:,.2f}" of a float
Format2f(n) == CommaStr(n \div 10) \o <<".">> \o <<Digits[(n % 10) + 1], "0">>

ZeroTotal == <<"0", ".", "0", "0">>

\* the (product line, country) pairs in the order the widgets are created
ProjPairs == [i \in 1..(2 * NumCountries) |->
                <<IF i <= NumCountries THEN <<"h","o","m","e">> ELSE <<"p","r","o">>,
                  AllCountries[((i - 1) % NumCountries) + 1]>>]
ProjTotalKeys == {ProjTotalKey[x] : x \in Pairs}
ProjStockKeys == {ProjStockKey[x] : x \in Pairs}
\* the pair of a calculated_vars key
ProjPairOf == Table([q \in ProjTotalKeys |-> CHOOSE x \in Pairs : ProjTotalKey[x] = q])

\* the value of a float or None inside sum(filter(None, ...))
Truthy(x) == IF IsFloat(x) THEN x.v ELSE 0

\* self.stock_anterior_values.get(key, 0.0)
StockGet(stock, key) == IF key \in DOMAIN stock THEN stock[key] ELSE PyFloat(0)

\* calculate_total_pais: the text put into the total of one pair
calculate_total_pais(pt, co, entries, stock) ==
    LET td_value == _get_numeric_value(entries[ProjTdKey[<<pt, co>>]])
        es_value == _get_numeric_value(entries[ProjEsKey[<<pt, co>>]])
        stock_anterior_value == StockGet(stock, ProjStockKey[<<pt, co>>])
    IN Format2f(Truthy(td_value) + Truthy(es_value) + Truthy(stock_anterior_value))

ClearedEntries == [q \in ProjEntryKeys |-> <<>>]
ClearedTotals == [q \in ProjTotalKeys |-> ZeroTotal]
ProjForm(stock, entries, totals, err) ==
    [stock |-> stock, entries |-> entries, totals |-> totals, err |-> err]

\* the mutation: summary_data of the period before
ProjLoadStock_prior(c, current_period) ==
    IF ~HasRow(decision, <<c, current_period - 1>>)
    THEN [stock |-> [q \in ProjStockKeys |-> PyFloat(0)], err |-> FALSE]
    ELSE LET summary_payload == json_loads(decision[<<c, current_period - 1>>])
             loaded_summary_data == IF IsDict(summary_payload)
                                    THEN DictGet(summary_payload, "summary_data", EmptyDict)
                                    ELSE Raise("AttributeError")
         IN IF ~IsDict(loaded_summary_data) THEN [stock |-> <<>>, err |-> TRUE]
            ELSE [stock |->
                    [q \in ProjStockKeys |->
                        LET stock_value == DictGet(loaded_summary_data, q, PyNone)
                        IN IF IsNone(stock_value) THEN PyFloat(0)
                           ELSE _get_numeric_value(PyStrOf(stock_value))],
                  err |-> FALSE]
\* first half of load_decisions_from_db: stock_anterior_values, from summary_data
\* of the period the form was opened with
ProjLoadStock(c, current_period) ==
    IF ~HasRow(decision, <<c, current_period>>)
    THEN [stock |-> [q \in ProjStockKeys |-> PyFloat(0)], err |-> FALSE]
    ELSE LET summary_payload == json_loads(decision[<<c, current_period>>])
             loaded_summary_data == IF IsDict(summary_payload)
                                    THEN DictGet(summary_payload, "summary_data", EmptyDict)
                                    ELSE Raise("AttributeError")
         IN IF ~IsDict(loaded_summary_data) THEN [stock |-> <<>>, err |-> TRUE]
            ELSE [stock |->
                    [q \in ProjStockKeys |->
                        LET stock_value == DictGet(loaded_summary_data, q, PyNone)
                        IN IF IsNone(stock_value) THEN PyFloat(0)
                           ELSE _get_numeric_value(PyStrOf(stock_value))],
                  err |-> FALSE]

\* ProjectedSalesUI.load_decisions_from_db: after the stock, the entries and
\* totals found in projected_sales_data, then the totals again
projected_load_decisions_from_db(c, current_period) ==
    LET first == ProjLoadStock(c, current_period) IN
    IF first.err THEN ProjForm(first.stock, ClearedEntries, ClearedTotals, TRUE)
    ELSE IF ~HasRow(decision, <<c, current_period>>)
    THEN ProjForm(first.stock, ClearedEntries,
                  [q \in ProjTotalKeys |->
                      calculate_total_pais(ProjPairOf[q][1], ProjPairOf[q][2], ClearedEntries, first.stock)],
                  FALSE)
    ELSE LET current_payload == json_loads(decision[<<c, current_period>>])
             loaded == IF IsDict(current_payload)
                       THEN DictGet(current_payload, "projected_sales_data", EmptyDict)
                       ELSE Raise("AttributeError")
         IN IF ~IsDict(loaded) THEN ProjForm(first.stock, ClearedEntries, ClearedTotals, TRUE)
            ELSE LET IsSet(q) == q \in DOMAIN loaded.d /\ ~IsNone(loaded.d[q])
                     entries == [q \in ProjEntryKeys |-> IF IsSet(q) THEN PyStrOf(loaded.d[q]) ELSE <<>>]
                     recalculated == [q \in ProjTotalKeys |->
                         calculate_total_pais(ProjPairOf[q][1], ProjPairOf[q][2], entries, first.stock)]
                     \* the totals after the traces of the entries that were set
                     traced == [q \in ProjTotalKeys |->
                         IF IsSet(ProjTdKey[ProjPairOf[q]]) \/ IsSet(ProjEsKey[ProjPairOf[q]])
                         THEN recalculated[q] ELSE ZeroTotal]
                     \* the totals in the order of creation whose stored value float() rejects
                     bads == {i \in 1..Len(ProjPairs) :
                                LET q == ProjTotalKey[ProjPairs[i]]
                                IN IsSet(q) /\ IsRaise(PyFloatOf(loaded.d[q]))}
                     bad == IF bads = {} THEN 0 ELSE CHOOSE i \in bads : \A k \in bads : i <= k
                     PlaceOf(q) == CHOOSE i \in 1..Len(ProjPairs) : ProjTotalKey[ProjPairs[i]] = q
                 IN IF bad = 0 THEN ProjForm(first.stock, entries, recalculated, FALSE)
                    ELSE ProjForm(first.stock, entries,
                            [q \in ProjTotalKeys |->
                                IF PlaceOf(q) < bad /\ IsSet(q)
                                THEN Format2f(PyFloatOf(loaded.d[q]).v)
                                ELSE traced[q]], TRUE)

\* opening the form, or its "Cargar Decisiones" button
ProjectedSalesUI_load_decisions_from_db(c, p) ==
    /\ ui' = UiState("projected_form", c, p, projected_load_decisions_from_db(c, p))
    /\ UNCHANGED <<menu, proc, system_control, schema, company, decision, financial_statement, writes>>

\* the same handler of the read-only consultation form
ProjectedSalesConsultaUI_load_decisions_from_db(c, p) ==
    /\ ui' = UiState("projected_consulta", c, p, projected_load_decisions_from_db(c, p))
    /\ UNCHANGED <<menu, proc, system_control, schema, company, decision, financial_statement, writes>>

\* the mutation: the payload is built from the form alone
projected_save_payload_blind(c, p, data) ==
    SetSection(EmptyDict, "projected_sales_data", data)
\* full_payload = json.loads(existing) if existing else {}; then the section is set
projected_save_payload(c, p, data) ==
    SetSection(LoadPayload(c, p, EmptyDict), "projected_sales_data", data)

\* ProjectedSalesUI.save_decisions: the user typed raw into the TD field of
\* the home line of one country (the trace recalculates that total)
ProjectedSalesUI_save_decisions(co, raw) ==
    LET typed == ProjTdKey[<<Home, co>>]
        entries == [ui.ret.entries EXCEPT ![typed] = raw]
        totals == [ui.ret.totals EXCEPT ![ProjTotalKey[<<Home, co>>]] =
                        calculate_total_pais(Home, co, entries, ui.ret.stock)]
        projected_sales_data ==
            PyDict([q \in ProjEntryKeys \cup ProjTotalKeys \cup {<<"s","t","o","c","k","_","a","n","t","e","r","i","o","r","_","v","a","l","u","e","s">>} |->
                IF q \in ProjEntryKeys THEN _get_numeric_value(entries[q])
                ELSE IF q \in ProjTotalKeys THEN _get_numeric_value(totals[q])
                ELSE PyDict(ui.ret.stock)])
        payload == projected_save_payload(ui.c, ui.p, projected_sales_data)
    IN /\ ui.op = "projected_form"
       /\ writes < MaxWrites
       /\ decision' = StoreDecision(ui.c, ui.p, payload)
       /\ ui' = [ui EXCEPT !.ret = ProjForm(ui.ret.stock, entries, totals, ui.ret.err)]
       /\ writes' = writes + 1
       /\ UNCHANGED <<menu, proc, system_control, schema, company, financial_statement>>

(***************************************************************************)
(* Financial statements: one document per (company, period, type).         *)
(***************************************************************************)
disponible_key == "activo_circulante_Disponible"
materia_prima_key == "activo_circulante_Materia_Prima"

\* the data mappings handed to the save methods
StatementDocs ==
    { PyDict([q \in {disponible_key} |-> PyFloat(12345)]),
      PyDict([q \in {materia_prima_key} |-> PyFloat(70)]) }
\* f"SALES_{model}" of the two models of the sales form
SalesTypes == {"SALES_HOME", "SALES_PROFESSIONAL"}

\* the mutation: the data is merged into the stored document
StoreStatement_merge(c, p, type, data) ==
    LET old == IF HasRow(financial_statement, <<c, p, type>>)
               THEN json_loads(financial_statement[<<c, p, type>>]) ELSE EmptyDict
    IN ReplaceInto(financial_statement, <<c, p, type>>,
            json_dumps(PyDict([q \in (DOMAIN old.d) \cup (DOMAIN data.d) |->
                                  IF q \in DOMAIN data.d THEN data.d[q] ELSE old.d[q]])))
\* REPLACE INTO financial_statement ... json.dumps(data)
StoreStatement(c, p, type, data) ==
    ReplaceInto(financial_statement, <<c, p, type>>, json_dumps(data))

\* SELECT data ... ; json.loads(row["data"]) if row else None; None on an exception
LoadStatement(c, p, type) ==
    IF HasRow(financial_statement, <<c, p, type>>)
    THEN LET data == json_loads(financial_statement[<<c, p, type>>])
         IN IF IsRaise(data) THEN PyNone ELSE data
    ELSE PyNone

\* a save method of a statement model; ui.ret tells what was handed over and
\* whether a row was there to replace
SaveStatementStep(c, p, type, data) ==
    /\ writes < MaxWrites
    /\ financial_statement' = StoreStatement(c, p, type, data)
    /\ ui' = UiState("save_statement", c, p,
                     [type |-> type, data |-> data,
                      replaced |-> HasRow(financial_statement, <<c, p, type>>)])
    /\ writes' = writes + 1
    /\ UNCHANGED <<menu, proc, system_control, schema, company, decision>>

\* a load method of a statement model
LoadStatementStep(c, p, type) ==
    /\ ui' = UiState("load_statement", c, p, [type |-> type, doc |-> LoadStatement(c, p, type)])
    /\ UNCHANGED <<menu, proc, system_control, schema, company, decision, financial_statement, writes>>

(***************************************************************************)
(* Opening cash balance (caja.py, Consulta/c_caja.py).                     *)
(***************************************************************************)
\* the mutation: the statement of the period before
BalanceSheetRowKey_prior(c, period) == <<c, period - 1, "BALANCE_SHEET">>
\* SELECT data FROM financial_statement WHERE company_id = ? AND period = ?
\* AND type = 'BALANCE_SHEET': the key of the row asked for
BalanceSheetRowKey(c, period) == <<c, period, "BALANCE_SHEET">>

\* the mutation: no handler around json.loads and float(), the exception leaves
get_initial_balance_unguarded(c, period) ==
    IF ~HasRow(financial_statement, BalanceSheetRowKey(c, period)) THEN PyFloat(0)
    ELSE LET balance_data == json_loads(financial_statement[BalanceSheetRowKey(c, period)])
         IN IF IsRaise(balance_data) THEN balance_data
            ELSE IF ~IsDict(balance_data) THEN Raise("AttributeError")
            ELSE PyFloatOf(DictGet(balance_data, disponible_key, PyFloat(0)))
\* CashFlowModel.get_initial_balance: json.loads or .get raising is caught by the
\* outer handler, float() raising ValueError by the inner one, TypeError by the outer
get_initial_balance(c, period) ==
    IF ~HasRow(financial_statement, BalanceSheetRowKey(c, period)) THEN PyFloat(0)
    ELSE LET balance_data == json_loads(financial_statement[BalanceSheetRowKey(c, period)])
         IN IF ~IsDict(balance_data) THEN PyFloat(0)
            ELSE LET f == PyFloatOf(DictGet(balance_data, disponible_key, PyFloat(0)))
                 IN IF IsRaise(f) THEN PyFloat(0) ELSE f

\* the mutation: a missing balance sheet is created with the default balance
CashFlowUI_get_initial_balance_caching(c, p) ==
    /\ ui' = UiState("get_initial_balance", c, p, get_initial_balance(c, p))
    /\ financial_statement' =
            IF HasRow(financial_statement, BalanceSheetRowKey(c, p)) THEN financial_statement
            ELSE ReplaceInto(financial_statement, BalanceSheetRowKey(c, p),
                             json_dumps(PyDict([q \in {disponible_key} |-> PyFloat(0)])))
    /\ UNCHANGED <<menu, proc, system_control, schema, company, decision, writes>>
\* calculate_cash_flow of the cash-flow form asks for the initial balance
CashFlowUI_get_initial_balance(c, p) ==
    /\ ui' = UiState("get_initial_balance", c, p, get_initial_balance(c, p))
    /\ UNCHANGED <<menu, proc, system_control, schema, company, decision, financial_statement, writes>>

\* the same method of the consultation form
CashFlowConsultaUI_get_initial_balance(c, p) ==
    /\ ui' = UiState("get_initial_balance_consulta", c, p, get_initial_balance(c, p))
    /\ UNCHANGED <<menu, proc, system_control, schema, company, decision, financial_statement, writes>>

(***************************************************************************)
(* captop.db is a file beside the application: a row can also hold text    *)
(* that no form above wrote (a damaged payload, a null field, a stock      *)
(* figure).  The BALANCE_SHEET rows are written by the initial-balance     *)
(* form that the main menu opens (Interfaces.balanceinicial); its effect   *)
(* is any of the texts below.                                              *)
(***************************************************************************)
JsonObj(m) == [j |-> "obj", m |-> m]
JsonNum(lit) == [j |-> "num", lit |-> lit]
JsonNull == [j |-> "null"]

JsonStr(lit) == [j |-> "str", lit |-> lit]

ForeignStatementTexts ==
    { Malformed,
      JsonObj([q \in {disponible_key} |-> JsonNum(<<"1", "2", "3", "4", ".", "5">>)]),
      JsonObj([q \in {disponible_key} |-> JsonNull]),
      JsonObj([q \in {disponible_key} |-> JsonStr(<<"7">>)]),
      JsonObj([q \in {disponible_key} |-> JsonStr(<<"n", "/", "a">>)]),
      JsonObj([q \in {materia_prima_key} |-> JsonNum(<<"7", ".", "0">>)]) }

ForeignDecisionTexts ==
    { Malformed,
      JsonObj([q \in {"summary_data"} |-> JsonNull]),
      JsonObj([q \in {"summary_data"} |->
          JsonObj([r \in {ProjStockKey[<<Home, AllCountries[1]>>]} |-> JsonNull])]),
      JsonObj([q \in {"summary_data"} |->
          JsonObj([r \in {ProjStockKey[<<Home, AllCountries[1]>>]} |-> JsonNum(<<"1", "2", ".", "5">>)])]) }

\* the initial-balance form (or another program) stores a BALANCE_SHEET row
ForeignStatement ==
    \E c \in CompanyIds, p \in Periods, text \in ForeignStatementTexts :
        /\ writes < MaxWrites
        /\ financial_statement' = ReplaceInto(financial_statement, <<c, p, "BALANCE_SHEET">>, text)
        /\ ui' = UiState("none", 0, 0, PyNone)
        /\ writes' = writes + 1
        /\ UNCHANGED <<menu, proc, system_control, schema, company, decision>>

\* another program stores a decision row
ForeignDecision ==
    \E c \in CompanyIds, p \in Periods, text \in ForeignDecisionTexts :
        /\ writes < MaxWrites
        /\ decision' = ReplaceInto(decision, <<c, p>>, text)
        /\ ui' = UiState("none", 0, 0, PyNone)
        /\ writes' = writes + 1
        /\ UNCHANGED <<menu, proc, system_control, schema, company, financial_statement>>

(***************************************************************************)
(* Company registry through the controller (main1.py) and through the      *)
(* model of the product form (homeprofessional.py), the turn counter and   *)
(* the schema initializers.  A storage fault is a sqlite3.Error raised by  *)
(* the write (a locked or full database file).                             *)
(***************************************************************************)
\* what the user types into the "new company" field
TypedNames ==
    { <<"A","c","m","e">>, <<" ","A","c","m","e"," ">>, <<"B","e","t","a">>,
      <<"A","c"," ","m","e">>, <<"A","c","\t","m","e">>, <<"A","c","-","m","e">>,
      <<"A","b">>, <<>>, <<" "," "," ">>, [i \in 1..51 |-> "a"] }

\* the mutation: the length of the name is not looked at
validate_company_name_any_length(name) ==
    LET isspace(ch) == ch \in {" ", "\t"}
        isalnum(ch) == \/ ch \in DOMAIN DigitValue
                       \/ \E u \in 1..26 : ch = UpperCase[u] \/ ch = LowerCase[u]
        kept == {i \in 1..Len(name) : ~isspace(name[i])}
        stripped == IF kept = {} THEN <<>>
                    ELSE SubSeq(name, CHOOSE i \in kept : \A k \in kept : i <= k,
                                      CHOOSE i \in kept : \A k \in kept : k <= i)
    IN [valid |-> /\ stripped # <<>>
                  /\ \A i \in 1..Len(stripped) : isalnum(stripped[i]) \/ isspace(stripped[i]),
        name |-> stripped]
\* MainController.validate_company_name: whether the name is accepted, and
\* name.strip()
validate_company_name(name) ==
    LET isspace(ch) == ch \in {" ", "\t"}
        isalnum(ch) == \/ ch \in DOMAIN DigitValue
                       \/ \E u \in 1..26 : ch = UpperCase[u] \/ ch = LowerCase[u]
        kept == {i \in 1..Len(name) : ~isspace(name[i])}
        stripped == IF kept = {} THEN <<>>
                    ELSE SubSeq(name, CHOOSE i \in kept : \A k \in kept : i <= k,
                                      CHOOSE i \in kept : \A k \in kept : k <= i)
    IN [valid |-> /\ stripped # <<>>
                  /\ Len(stripped) >= 3
                  /\ Len(stripped) <= 50
                  /\ \A i \in 1..Len(stripped) : isalnum(stripped[i]) \/ isspace(stripped[i]),
        name |-> stripped]

\* MainController.create_company: the model is called with the stripped name
\* only when the name is valid
MainController_create_company(name) ==
    LET checked == validate_company_name(name) IN
    IF checked.valid
    THEN /\ (\E i \in 1..Len(company) : company[i].name = checked.name) \/ Len(company) < MaxCompanies
         /\ create_company(checked.name)
    ELSE /\ ui' = UiState("create_company", 0, 0, FALSE)
         /\ UNCHANGED <<menu, proc, system_control, schema, company, decision, financial_statement, writes>>

\* BusinessGameModel.create_company: the handler of IntegrityError calls
\* logger.error, and the module defines no logger
BusinessGameModel_create_company(name) ==
    LET duplicate == \E i \in 1..Len(company) : company[i].name = name IN
    /\ duplicate \/ Len(company) < MaxCompanies
    /\ company' = IF duplicate THEN company
                  ELSE Append(company, [name |-> name, cash_usd |-> 1000000,
                                        current_period |-> 0,
                                        reporting_currency_exchange_rate |-> DefaultExchangeRate])
    /\ ui' = UiState("create_company_product", 0, 0,
                     IF duplicate THEN Raise("NameError") ELSE [k |-> "bool", v |-> TRUE])
    /\ UNCHANGED <<menu, proc, system_control, schema, decision, financial_statement, writes>>

\* BusinessGameModel.get_company_info
get_company_info(company_id) ==
    IF company_id \in 1..Len(company) THEN company[company_id] ELSE PyNone

\* the mutation: the counter is set to 1
increment_period_reset(company_id) ==
    [company EXCEPT ![company_id].current_period = 1]
\* BusinessGameModel.increment_period: UPDATE company SET current_period =
\* current_period + 1 WHERE id = ?
increment_period(company_id) ==
    [company EXCEPT ![company_id].current_period = @ + 1]

\* the mutation: the period is advanced whatever save_decisions did
ProductUI_save_data_fault_blind(c, p, raw, fault) ==
    LET f == FloatOfStr(raw)
        value == IF raw = <<>> THEN PyFloat(0) ELSE IF IsRaise(f) THEN PyStr(raw) ELSE f
        data == PyDict([q \in {ProductEntryKey} |-> value])
    IN /\ writes < MaxWrites
       /\ decision' = IF fault = "save" THEN decision ELSE StoreDecision(c, p, data)
       /\ company' = IF fault = "increment" THEN company ELSE increment_period(c)
       /\ ui' = UiState("save_product", c, p,
                        [fault |-> fault, before |-> company[c].current_period,
                         result |-> IF fault = "none" THEN [k |-> "bool", v |-> TRUE]
                                    ELSE Raise("NameError")])
       /\ writes' = writes + 1
       /\ UNCHANGED <<menu, proc, system_control, schema, financial_statement>>
\* ProductUI._save_data over a database whose write may fail: save_decisions,
\* and increment_period when it returned True.  The except handlers of both
\* methods call logger.error, and the module defines no logger: NameError
\* leaves the method and the handler.
ProductUI_save_data_fault(c, p, raw, fault) ==
    LET f == FloatOfStr(raw)
        value == IF raw = <<>> THEN PyFloat(0) ELSE IF IsRaise(f) THEN PyStr(raw) ELSE f
        data == PyDict([q \in {ProductEntryKey} |-> value])
    IN /\ writes < MaxWrites
       /\ decision' = IF fault = "save" THEN decision ELSE StoreDecision(c, p, data)
       /\ company' = IF fault = "none" THEN increment_period(c) ELSE company
       /\ ui' = UiState("save_product", c, p,
                        [fault |-> fault, before |-> company[c].current_period,
                         result |-> IF fault = "none" THEN [k |-> "bool", v |-> TRUE]
                                    ELSE Raise("NameError")])
       /\ writes' = writes + 1
       /\ UNCHANGED <<menu, proc, system_control, schema, financial_statement>>

\* a schema initializer runs: CompanyModel._init_schema, init_schema of db.py,
\* BusinessGameModel.init_schema, and init_schema of the two forms that call
\* it when they are imported
InitSchema ==
    \E module \in DOMAIN SchemaTables :
        /\ schema' = init_schema(schema, module, Len(SchemaTables[module]))
        /\ ui' = UiState("init_schema", 0, 0, module)
        /\ UNCHANGED <<menu, proc, system_control, company, decision, financial_statement, writes>>

(***************************************************************************)
(* Saves under a storage fault and loads over any stored row.  The fault   *)
(* is a sqlite3.OperationalError raised by the REPLACE statement or by the *)
(* commit; it can only happen when the handler reaches the write.          *)
(* ui.ret of a save is what was typed, whether the pair had a row, the     *)
(* fault, and the result handed to the caller (a bool, or the exception    *)
(* that leaves the method).                                                *)
(***************************************************************************)
SaveOutcome(raw, c, p, fault, result) ==
    [raw |-> raw, had_row |-> HasRow(decision, <<c, p>>), fault |-> fault, result |-> result]

\* CashFlowModel.save_cash_flow: every exception is caught, logged and turned
\* into False
CashFlowModel_save_cash_flow(c, p, raw, fault) ==
    LET cash_flow_data == PyDict([q \in {CashFlowEntryKey} |-> CashFlowField(raw)])
        payload == SetSection(LoadPayload(c, p, EmptyDict), "cash_flow_data", cash_flow_data)
        done == IF fault = "write" THEN Raise("OperationalError") ELSE payload
    IN /\ writes < MaxWrites
       /\ fault = "write" => ~IsRaise(payload)
       /\ decision' = StoreDecision(c, p, done)
       /\ ui' = UiState("cash_flow_save", c, p,
                        SaveOutcome(raw, c, p, fault, [k |-> "bool", v |-> ~IsRaise(done)]))
       /\ writes' = writes + 1
       /\ UNCHANGED <<menu, proc, system_control, schema, company, financial_statement>>

\* LoanDecisionsUI._save_data with DatabaseManager.load_decision and
\* save_decision: load_decision has no handler, save_decision catches
\* sqlite3.Error and returns False
LoanDecisionsUI_save_data_fault(c, p, raw, fault) ==
    LET loan_decisions_data ==
            PyDict([q \in {"long_term_amount", "loan_term", "grace_period",
                          "short_term_amount", "credit_line_amount"} |->
                _get_numeric_value_loan(IF q = "long_term_amount" THEN raw ELSE <<>>)])
        payload == SetSection(OrEmptyDict(LoadPayload(c, p, PyNone)), "loan_decisions", loan_decisions_data)
    IN /\ writes < MaxWrites
       /\ fault = "write" => ~IsRaise(payload)
       /\ decision' = IF fault = "write" THEN decision ELSE StoreDecision(c, p, payload)
       /\ ui' = UiState("loan_save", c, p,
                        SaveOutcome(raw, c, p, fault,
                                    IF IsRaise(payload) THEN payload
                                    ELSE [k |-> "bool", v |-> fault = "none"]))
       /\ writes' = writes + 1
       /\ UNCHANGED <<menu, proc, system_control, schema, company, financial_statement>>

\* PreviousPeriodModel.load_previous_period_data: payload.get of the section,
\* None without row, None when anything raises
load_previous_period_data(c, p) ==
    IF HasRow(decision, <<c, p>>)
    THEN LET payload == json_loads(decision[<<c, p>>])
         IN IF IsDict(payload) THEN DictGet(payload, "previous_period_data", PyNone) ELSE PyNone
    ELSE PyNone

(***************************************************************************)
(* Main menu (main1.py).  Opening a form leaves in ui the class of the     *)
(* child window with the company_id and period it was constructed with.    *)
(***************************************************************************)
\* MainMenu._select_company_period with MainController.load_company: the
\* period is the one chosen in the combobox, whatever the company's own
MainMenu_select_company_period(name, period) ==
    LET found == {i \in 1..Len(company) : company[i].name = name} IN
    /\ menu' = IF found # {}
               THEN [current_company_id |-> CHOOSE i \in found : TRUE, current_period |-> period]
               ELSE [current_company_id |-> 0, current_period |-> 0]
    /\ ui' = UiState("select_company_period", 0, 0, found # {})
    /\ UNCHANGED <<proc, system_control, schema, company, decision, financial_statement, writes>>

\* MainMenu._open_interface: refused with a warning while no company is loaded
MainMenu_open_interface(interface_class) ==
    /\ ui' = IF menu.current_company_id = 0
             THEN UiState("select_company_first", 0, 0, PyNone)
             ELSE UiState(interface_class, menu.current_company_id, menu.current_period, PyNone)
    /\ UNCHANGED <<menu, proc, system_control, schema, company, decision, financial_statement, writes>>

\* MainMenu._open_control_sistema, _open_datos_fisicos_inventario and the
\* other openers that call abrir_...(self, self.current_company_id, ...)
MainMenu_open_control_sistema(interface_class) ==
    /\ ui' = UiState(interface_class, menu.current_company_id, menu.current_period, PyNone)
    /\ UNCHANGED <<menu, proc, system_control, schema, company, decision, financial_statement, writes>>

(***************************************************************************)
(* Sales by country (ventasporpais.py).  The entry fields are created once, *)
(* by the constructor, while current_model is "HOME": their keys are       *)
(* f"{self.current_model.get()}_credito_{pais}" and the like.  The form is *)
(* followed through the credit field of country A.                         *)
(***************************************************************************)
\* SalesByCountryUI.save_data with SalesByCountryModel.save_sales_data: the
\* fields whose key starts with f"{model}_" are collected and stored under
\* f"SALES_{model}"
SalesByCountryUI_save_data(c, p, model, raw) ==
    LET key == <<"H","O","M","E","_","c","r","e","d","i","t","o","_","A">>
        prefix == IF model = "HOME" THEN <<"H","O","M","E","_">>
                  ELSE <<"P","R","O","F","E","S","S","I","O","N","A","L","_">>
        startswith == Len(key) >= Len(prefix) /\ SubSeq(key, 1, Len(prefix)) = prefix
        sales_data == PyDict([q \in (IF startswith THEN {key} ELSE {}) |-> CashFlowField(raw)])
    IN /\ writes < MaxWrites
       /\ financial_statement' =
             StoreStatement(c, p, IF model = "HOME" THEN "SALES_HOME" ELSE "SALES_PROFESSIONAL", sales_data)
       /\ ui' = UiState("save_sales", c, p, [model |-> model, raw |-> raw, result |-> TRUE])
       /\ writes' = writes + 1
       /\ UNCHANGED <<menu, proc, system_control, schema, company, decision>>

(***************************************************************************)
(* Final balance (balancefinal.py): the lookup of a field by key that      *)
(* calculate_totals uses.  entry_vars and total_vars are dicts in          *)
(* insertion order: sequences of [key, value].                             *)
(***************************************************************************)
\* FinalBalanceUI._normalize_key: the chain of replace calls, then lower()
FinalBalanceUI_normalize_key(key) ==
    LET Kept(ch) == ch \notin {":", "\"", "'"}
        kept == SelectSeq(key, Kept)
        Replaced(ch) ==
            CASE ch \in {" ", "/", ".", "-"} -> "_"
              [] ch = "ó" -> "o" [] ch = "é" -> "e" [] ch = "á" -> "a"
              [] ch = "í" -> "i" [] ch = "ú" -> "u" [] ch = "ñ" -> "n"
              [] \E i \in 1..26 : UpperCase[i] = ch -> LowerCase[CHOOSE i \in 1..26 : UpperCase[i] = ch]
              [] OTHER -> ch
    IN [i \in 1..Len(kept) |-> Replaced(kept[i])]

\* FinalBalanceUI._get_float_value: exact key, then the listed variations,
\* then the first field whose key contains the key or is contained in it,
\* then 0.0; a ValueError of float() is caught and gives 0.0
_get_float_value(entry_vars, total_vars, key) ==
    LET normalized_key == FinalBalanceUI_normalize_key(key)
        Float(value) == LET f == FloatOfStr(value)
                        IN IF value = <<>> \/ IsRaise(f) THEN PyFloat(0) ELSE f
        At(d, k) == {i \in 1..Len(d) : d[i].key = k}
        Get(k) == IF At(entry_vars, k) # {}
                  THEN Float(entry_vars[CHOOSE i \in At(entry_vars, k) : TRUE].value)
                  ELSE Float(StrReplace(total_vars[CHOOSE i \in At(total_vars, k) : TRUE].value, ",", <<>>))
        Has(k) == At(entry_vars, k) # {} \/ At(total_vars, k) # {}
        key_variations ==
            IF normalized_key = <<"a", "c", "t", "i", "v", "o", "_", "f", "i", "j", "o", "_", "a", "c", "u", "m", "_", "p", "e", "r", "i", "o", "d", "o", "s", "_", "a", "n", "t", "e", "r", "i", "o", "r", "e", "s">>
            THEN << <<"a", "c", "t", "i", "v", "o", "_", "f", "i", "j", "o", "_", "a", "c", "u", "m", "u", "l", "a", "d", "o", "_", "a", "n", "t", "e", "r", "i", "o", "r", "e", "s">>,
                    <<"a", "c", "t", "i", "v", "o", "_", "f", "i", "j", "o", "_", "d", "e", "p", "r", "e", "c", "i", "a", "c", "i", "o", "n", "_", "a", "c", "u", "m", "u", "l", "a", "d", "a">>,
                    <<"a", "c", "t", "i", "v", "o", "_", "f", "i", "j", "o", "_", "d", "e", "p", "r", "e", "c", "i", "a", "c", "i", "o", "n", "_", "a", "n", "t", "e", "r", "i", "o", "r", "e", "s">> >>
            ELSE IF normalized_key = <<"p", "a", "s", "i", "v", "o", "_", "c", "i", "r", "c", "u", "l", "a", "n", "t", "e", "_", "n", "o", "t", "a", "s", "_", "d", "e", "_", "c", "r", "e", "d", "i", "t", "o">>
            THEN << <<"p", "a", "s", "i", "v", "o", "_", "c", "i", "r", "c", "u", "l", "a", "n", "t", "e", "_", "n", "o", "t", "a", "s", "_", "c", "r", "e", "d", "i", "t", "o">>,
                    <<"p", "a", "s", "i", "v", "o", "_", "c", "i", "r", "c", "u", "l", "a", "n", "t", "e", "_", "c", "r", "e", "d", "i", "t", "o", "s">>,
                    <<"p", "a", "s", "i", "v", "o", "_", "c", "i", "r", "c", "u", "l", "a", "n", "t", "e", "_", "n", "o", "t", "a", "s">> >>
            ELSE <<>>
        found == {j \in 1..Len(key_variations) : Has(key_variations[j])}
        Contains(a, b) == \E i \in 0..(Len(b) - Len(a)) : SubSeq(b, i + 1, i + Len(a)) = a
        Partial(d) == {i \in 1..Len(d) : Contains(normalized_key, d[i].key)
                                                  \/ Contains(d[i].key, normalized_key)}
        First(set) == CHOOSE i \in set : \A j \in set : i <= j
    IN IF Has(normalized_key) THEN Get(normalized_key)
       ELSE IF found # {} THEN Get(key_variations[First(found)])
       ELSE IF Partial(entry_vars) # {} THEN Float(entry_vars[First(Partial(entry_vars))].value)
       ELSE IF Partial(total_vars) # {}
            THEN Float(StrReplace(total_vars[First(Partial(total_vars))].value, ",", <<>>))
       ELSE PyFloat(0)

(***************************************************************************)
(* Physical inventory (estadoderesultado.py): the table system_control is  *)
(* a sequence of rows in rowid order, with UNIQUE(company_id, period,      *)
(* type) and an AUTOINCREMENT id.                                          *)
(***************************************************************************)
\* the mutation: a plain INSERT, the conflicting row is kept
save_inventory_data_insert(c, p, raw, fault) ==
    /\ writes < MaxWrites
    /\ system_control' =
          IF fault THEN system_control
          ELSE Append(system_control,
                      [id |-> Len(system_control) + 1, company_id |-> c, period |-> p,
                       type |-> "DATOS_FISICOS_INVENTARIO",
                       data |-> json_dumps(PyDict([q \in {<<"k","i","t","s","_","u","n","i","t","s">>} |-> PyStr(raw)]))])
    /\ ui' = UiState("save_inventory", c, p, [raw |-> raw, result |-> ~fault])
    /\ writes' = writes + 1
    /\ UNCHANGED <<menu, proc, schema, company, decision, financial_statement>>
\* DatosFisicosInventarioUI.guardar and DatosFisicosInventarioModel.
\* save_inventory_data: the texts of the fields, REPLACE INTO system_control
\* (the row of the same company, period and type is deleted, the new row
\* takes the next id); any exception of the store gives False
save_inventory_data(c, p, raw, fault) ==
    LET inventory_data == PyDict([q \in {<<"k","i","t","s","_","u","n","i","t","s">>} |-> PyStr(raw)])
        Other(row) == ~(row.company_id = c /\ row.period = p /\ row.type = "DATOS_FISICOS_INVENTARIO")
        last_id == IF system_control = <<>> THEN 0 ELSE system_control[Len(system_control)].id
    IN /\ writes < MaxWrites
       /\ system_control' =
             IF fault THEN system_control
             ELSE Append(SelectSeq(system_control, Other),
                         [id |-> last_id + 1, company_id |-> c, period |-> p,
                          type |-> "DATOS_FISICOS_INVENTARIO", data |-> json_dumps(inventory_data)])
       /\ ui' = UiState("save_inventory", c, p, [raw |-> raw, result |-> ~fault])
       /\ writes' = writes + 1
       /\ UNCHANGED <<menu, proc, schema, company, decision, financial_statement>>

(***************************************************************************)
(* Two processes on one database file (prestamo.py, publicidad.py).  Each  *)
(* call of load_decision and save_decision is one transaction on a         *)
(* connection of its own; _save_data makes two such calls.  proc[i].open   *)
(* counts the connections of process i that no close() has released: the   *)
(* code never calls close(), "with conn" only commits or rolls back, and   *)
(* the connection object is closed when the interpreter finalizes it, a   *)
(* step of its own.                                                        *)
(***************************************************************************)
\* LoanDecisionsUI._load_data, AdvertisingUI._load_data: the form of process
\* i is opened for (c, p) and reads the document
Process_load_data(i, c, p) ==
    /\ proc[i].pc = "idle"
    /\ proc[i].open < MaxWrites
    /\ proc' = [proc EXCEPT ![i] = [pc |-> "form", c |-> c, p |-> p,
                                    seen |-> LoadPayload(c, p, PyNone), payload |-> PyNone,
                                    open |-> @.open + 1]]
    /\ ui' = UiState("load_data", c, p, [i |-> i])
    /\ UNCHANGED <<menu, system_control, schema, company, decision, financial_statement, writes>>

\* the mutation: the save starts from the document read when the form opened
Process_save_data_read_seen(i, raw) ==
    /\ proc[i].pc = "form"
    /\ proc[i].open < MaxWrites
    /\ proc' = [proc EXCEPT ![i].pc = "read",
                            ![i].payload = SetSection(OrEmptyDict(proc[i].seen),
                                              IF i = 1 THEN "loan_decisions" ELSE "advertising_decisions",
                                              IF i = 1
                                              THEN PyDict([q \in {"long_term_amount", "loan_term", "grace_period",
                                                                  "short_term_amount", "credit_line_amount"} |->
                                                      _get_numeric_value_loan(IF q = "long_term_amount" THEN raw ELSE <<>>)])
                                              ELSE PyDict([q \in {"advertising_Revista_PC_Actualidad_Argentina"} |->
                                                      _get_numeric_value_loan(raw)])),
                            ![i].open = @ + 1]
    /\ ui' = UiState("save_data_read", proc[i].c, proc[i].p, [i |-> i])
    /\ UNCHANGED <<menu, system_control, schema, company, decision, financial_statement, writes>>
\* _save_data, first half: the section from the fields, existing_data =
\* load_decision(company_id, period) or {}, existing_data[section] = ...
Process_save_data_read(i, raw) ==
    LET data == IF i = 1
                THEN PyDict([q \in {"long_term_amount", "loan_term", "grace_period",
                                    "short_term_amount", "credit_line_amount"} |->
                        _get_numeric_value_loan(IF q = "long_term_amount" THEN raw ELSE <<>>)])
                ELSE PyDict([q \in {"advertising_Revista_PC_Actualidad_Argentina"} |->
                        _get_numeric_value_loan(raw)])
        existing_data == SetSection(OrEmptyDict(LoadPayload(proc[i].c, proc[i].p, PyNone)),
                                    IF i = 1 THEN "loan_decisions" ELSE "advertising_decisions", data)
    IN /\ proc[i].pc = "form"
       /\ proc[i].open < MaxWrites
       \* an exception of load_decision leaves _save_data
       /\ proc' = [proc EXCEPT ![i].pc = IF IsRaise(existing_data) THEN "form" ELSE "read",
                               ![i].payload = existing_data,
                               ![i].open = @ + 1]
       /\ ui' = UiState("save_data_read", proc[i].c, proc[i].p, [i |-> i])
       /\ UNCHANGED <<menu, system_control, schema, company, decision, financial_statement, writes>>

\* _save_data, second half: save_decision(company_id, period, existing_data)
Process_save_data_write(i) ==
    /\ proc[i].pc = "read"
    /\ writes < MaxWrites
    /\ proc[i].open < MaxWrites
    /\ decision' = StoreDecision(proc[i].c, proc[i].p, proc[i].payload)
    /\ proc' = [proc EXCEPT ![i].pc = "form", ![i].open = @ + 1]
    /\ ui' = UiState("save_data_write", proc[i].c, proc[i].p, [i |-> i])
    /\ writes' = writes + 1
    /\ UNCHANGED <<menu, system_control, schema, company, financial_statement>>

(***************************************************************************)
(* Specifications.                                                         *)
(***************************************************************************)
\* what the user types into the followed field of a form
CashRaws == { <<"7">>, <<"n", "/", "a">> }
StockRaws == { <<"7">>, <<"1", ",", "5">> }
AmountRaws == { <<"1", ",", "5">> }

CreateCompany == \E name \in CompanyNames : create_company(name)

SaveCashFlow == \E c \in CompanyIds, p \in Periods, raw \in CashRaws : CashFlowUI_save_cash_flow(c, p, raw)
\* CashFlowUI._load_initial_data
LoadCashFlow ==
    \E c \in CompanyIds, p \in Periods :
        /\ ui' = UiState("load_cash_flow", c, p, load_cash_flow(c, p))
        /\ UNCHANGED <<menu, proc, system_control, schema, company, decision, financial_statement, writes>>
SavePreviousPeriod ==
    \E c \in CompanyIds, p \in Periods, co \in countries, raw \in StockRaws :
        PreviousPeriodDataUI_save_data(c, p, Home, co, raw)
SaveLoan == \E c \in CompanyIds, p \in Periods, raw \in AmountRaws : LoanDecisionsUI_save_data(c, p, raw)
SaveAdvertising == \E c \in CompanyIds, p \in Periods, raw \in AmountRaws : AdvertisingUI_save_data(c, p, raw)
SaveMarketResearch == \E c \in CompanyIds, p \in Periods, raw \in AmountRaws : MarketResearchUI_save_data(c, p, raw)
SaveProduct == \E c \in CompanyIds, p \in Periods, raw \in AmountRaws : ProductUI_save_data(c, p, raw)
OpenSummary == \E c \in CompanyIds, p \in Periods : CompanySummaryUI_load_decisions_from_db(c, p)
SaveSummary == \E co \in countries, raw \in AmountRaws : CompanySummaryUI_save_decisions(co, raw)
OpenProjected == \E c \in CompanyIds, p \in Periods : ProjectedSalesUI_load_decisions_from_db(c, p)
OpenProjectedConsulta == \E c \in CompanyIds, p \in Periods : ProjectedSalesConsultaUI_load_decisions_from_db(c, p)
SaveProjected == \E co \in countries, raw \in AmountRaws : ProjectedSalesUI_save_decisions(co, raw)

\* BalanceSheetModel.load_balance_sheet (Consulta/c_balanceinicial.py)
LoadBalanceSheet == \E c \in CompanyIds, p \in Periods : LoadStatementStep(c, p, "BALANCE_SHEET")
\* FinalBalanceModel (balancefinal.py)
SaveFinalBalance == \E c \in CompanyIds, p \in Periods, d \in StatementDocs : SaveStatementStep(c, p, "BALANCE_FINAL", d)
LoadFinalBalance == \E c \in CompanyIds, p \in Periods : LoadStatementStep(c, p, "BALANCE_FINAL")
\* ControlSistemaModel (controlsistema.py)
SaveControlData == \E c \in CompanyIds, p \in Periods, d \in StatementDocs : SaveStatementStep(c, p, "CONTROL_SISTEMA", d)
LoadControlData == \E c \in CompanyIds, p \in Periods : LoadStatementStep(c, p, "CONTROL_SISTEMA")
\* SalesByCountryModel (ventasporpais.py)
SaveSalesData == \E c \in CompanyIds, p \in Periods, t \in SalesTypes, d \in StatementDocs : SaveStatementStep(c, p, t, d)
LoadSalesData == \E c \in CompanyIds, p \in Periods, t \in SalesTypes : LoadStatementStep(c, p, t)
\* ModeloHomeModel (modelohome.py)
SaveModeloData == \E c \in CompanyIds, p \in Periods, d \in StatementDocs : SaveStatementStep(c, p, "MODELO_HOME", d)
LoadModeloData == \E c \in CompanyIds, p \in Periods : LoadStatementStep(c, p, "MODELO_HOME")
GetInitialBalance == \E c \in CompanyIds, p \in Periods : CashFlowUI_get_initial_balance(c, p)
GetInitialBalanceConsulta == \E c \in CompanyIds, p \in Periods : CashFlowConsultaUI_get_initial_balance(c, p)

\* the forms that write the decision table
NextDecision ==
    \/ CreateCompany
    \/ SaveCashFlow
    \/ LoadCashFlow
    \/ SavePreviousPeriod
    \/ SaveLoan
    \/ SaveAdvertising
    \/ SaveMarketResearch
    \/ SaveProduct
    \/ OpenSummary
    \/ SaveSummary
    \/ OpenProjected
    \/ SaveProjected

\* the cash-flow and projected-sales forms, which share the document
NextSections ==
    \/ CreateCompany
    \/ SaveCashFlow
    \/ LoadCashFlow
    \/ OpenProjected
    \/ SaveProjected

\* the forms that write the financial_statement table
NextStatement ==
    \/ CreateCompany
    \/ SaveFinalBalance
    \/ LoadFinalBalance
    \/ SaveControlData
    \/ LoadControlData
    \/ SaveSalesData
    \/ LoadSalesData
    \/ SaveModeloData
    \/ LoadModeloData

\* the balance sheet and the opening cash balance read from it
NextBalance ==
    \/ CreateCompany
    \/ ForeignStatement
    \/ LoadBalanceSheet
    \/ GetInitialBalance
    \/ GetInitialBalanceConsulta

\* the forms of the period carry-forward
NextCarry ==
    \/ CreateCompany
    \/ SavePreviousPeriod
    \/ OpenSummary
    \/ SaveSummary
    \/ OpenProjected
    \/ OpenProjectedConsulta
    \/ SaveProjected
    \/ ForeignDecision

\* the read handlers, over rows of both tables
NextReads ==
    \/ CreateCompany
    \/ ForeignStatement
    \/ SavePreviousPeriod
    \/ GetInitialBalance
    \/ GetInitialBalanceConsulta
    \/ OpenSummary
    \/ OpenProjected
    \/ OpenProjectedConsulta

SpecDecision == Init /\ [][NextDecision]_vars
SpecSections == Init /\ [][NextSections]_vars
SpecStatement == Init /\ [][NextStatement]_vars
SpecBalance == Init /\ [][NextBalance]_vars
SpecCarry == Init /\ [][NextCarry]_vars
SpecReads == Init /\ [][NextReads]_vars

\* the company registry, the turn counter and the schema initializers
NextCompany ==
    \/ \E name \in TypedNames : MainController_create_company(name)
    \/ \E name \in {<<"A","c","m","e">>, <<"A","b">>} : BusinessGameModel_create_company(name)
    \/ \E c \in CompanyIds, p \in Periods, raw \in AmountRaws, fault \in {"none", "save", "increment"} :
            ProductUI_save_data_fault(c, p, raw, fault)
    \/ InitSchema

SpecCompany == Init /\ [][NextCompany]_vars

\* the decision table under storage faults and rows of other programs
NextStorage ==
    \/ CreateCompany
    \/ ForeignDecision
    \/ \E c \in CompanyIds, p \in Periods, raw \in CashRaws, fault \in {"none", "write"} :
            CashFlowModel_save_cash_flow(c, p, raw, fault)
    \/ \E c \in CompanyIds, p \in Periods, raw \in AmountRaws, fault \in {"none", "write"} :
            LoanDecisionsUI_save_data_fault(c, p, raw, fault)
    \/ \E c \in CompanyIds, p \in Periods, raw \in AmountRaws, fault \in {"none", "save", "increment"} :
            ProductUI_save_data_fault(c, p, raw, fault)
    \/ LoadCashFlow
    \* PreviousPeriodDataUI._load_initial_data
    \/ \E c \in CompanyIds, p \in Periods :
            /\ ui' = UiState("load_previous_period_data", c, p, load_previous_period_data(c, p))
            /\ UNCHANGED <<menu, proc, system_control, schema, company, decision, financial_statement, writes>>
    \* LoanDecisionsUI._load_data: DatabaseManager.load_decision, no handler
    \/ \E c \in CompanyIds, p \in Periods :
            /\ ui' = UiState("load_decision", c, p, LoadPayload(c, p, PyNone))
            /\ UNCHANGED <<menu, proc, system_control, schema, company, decision, financial_statement, writes>>
    \* ProductUI._load_data: BusinessGameModel.load_decisions, no handler
    \/ \E c \in CompanyIds, p \in Periods :
            /\ ui' = UiState("load_decisions", c, p, LoadPayload(c, p, PyNone))
            /\ UNCHANGED <<menu, proc, system_control, schema, company, decision, financial_statement, writes>>

SpecStorage == Init /\ [][NextStorage]_vars

\* the forms that coerce typed fields, each with a number and with a word typed
NextFields ==
    \/ CreateCompany
    \/ SaveCashFlow
    \/ \E c \in CompanyIds, p \in Periods, raw \in CashRaws : AdvertisingUI_save_data(c, p, raw)
    \/ \E c \in CompanyIds, p \in Periods, raw \in CashRaws : LoanDecisionsUI_save_data(c, p, raw)
    \/ \E c \in CompanyIds, p \in Periods, raw \in CashRaws : MarketResearchUI_save_data(c, p, raw)

SpecFields == Init /\ [][NextFields]_vars

\* the main menu, and the product form it opens
NextMenu ==
    \/ CreateCompany
    \/ \E name \in CompanyNames, period \in Periods : MainMenu_select_company_period(name, period)
    \/ \E interface_class \in {"ProductUI", "LoanDecisionsUI"} : MainMenu_open_interface(interface_class)
    \/ \E interface_class \in {"ControlSistemaUI", "PhysicalInventoryUI"} :
            MainMenu_open_control_sistema(interface_class)
    \* "Guardar Decisiones" of the open product form: period_var is the period
    \* the form was opened with, or one more after each save that went through
    \/ \E raw \in AmountRaws, fault \in {"none", "save", "increment"} :
            /\ ui.op \in {"ProductUI", "save_product"}
            /\ ProductUI_save_data_fault(
                    ui.c, IF ui.op = "save_product" /\ ui.ret.fault = "none" THEN ui.p + 1 ELSE ui.p,
                    raw, fault)
    \* "Guardar" of the sales-by-country form, with either model selected
    \/ \E c \in CompanyIds, p \in Periods, model \in {"HOME", "PROFESSIONAL"}, raw \in CashRaws :
            SalesByCountryUI_save_data(c, p, model, raw)

SpecMenu == Init /\ [][NextMenu]_vars

\* calculate_totals of the final-balance form asks for a field, over what
\* the user typed into three fields of the fixed-assets section (Plantas,
\* Terrenos, "Acum. pendiente Anteriores"); the keys are those of
\* calculate_totals and two that have drifted from the labels
NextFinalBalance ==
    \E plantas \in CashRaws \cup {<<>>}, terrenos \in CashRaws \cup {<<>>}, acum \in CashRaws \cup {<<>>},
      key \in { <<"a", "c", "t", "i", "v", "o", "_", "f", "i", "j", "o", "_", "P", "l", "a", "n", "t", "a", "s">>,
                <<"a", "c", "t", "i", "v", "o", "_", "f", "i", "j", "o", "_", "A", "c", "u", "m", "_", "p", "e", "r", "i", "o", "d", "o", "s", "_", "A", "n", "t", "e", "r", "i", "o", "r", "e", "s">>,
                <<"a", "c", "t", "i", "v", "o", "_", "f", "i", "j", "o", "_", "T", "e", "r", "r", "e", "n", "o">>,
                <<"a", "c", "t", "i", "v", "o", "_", "f", "i", "j", "o", "_", "A", "c", "u", "m", ".", " ", "p", "e", "n", "d", "i", "e", "n", "t", "e", " ", "A", "n", "t", "e", "r", "i", "o", "r", "e", "s">> } :
        LET entry_vars == << [key |-> <<"a", "c", "t", "i", "v", "o", "_", "f", "i", "j", "o", "_", "p", "l", "a", "n", "t", "a", "s">>, value |-> plantas],
                             [key |-> <<"a", "c", "t", "i", "v", "o", "_", "f", "i", "j", "o", "_", "t", "e", "r", "r", "e", "n", "o", "s">>, value |-> terrenos],
                             [key |-> <<"a", "c", "t", "i", "v", "o", "_", "f", "i", "j", "o", "_", "a", "c", "u", "m", "_", "_", "p", "e", "n", "d", "i", "e", "n", "t", "e", "_", "a", "n", "t", "e", "r", "i", "o", "r", "e", "s">>, value |-> acum] >>
            total_vars == << [key |-> <<"a", "c", "t", "i", "v", "o", "_", "f", "i", "j", "o", "_", "t", "o", "t", "a", "l", "_", "n", "e", "t", "o">>, value |-> <<"0", ".", "0", "0">>] >>
        IN /\ ui' = UiState("get_float_value", 0, 0,
                            [key |-> key, entry_vars |-> entry_vars,
                             result |-> _get_float_value(entry_vars, total_vars, key)])
           /\ UNCHANGED <<menu, proc, system_control, schema, company, decision, financial_statement, writes>>

SpecFinalBalance == Init /\ [][NextFinalBalance]_vars

\* the physical-inventory form, opened for a company and a period
NextInventory ==
    \E c \in 1..MaxCompanies, p \in Periods, raw \in CashRaws, fault \in BOOLEAN :
        save_inventory_data(c, p, raw, fault)

SpecInventory == Init /\ [][NextInventory]_vars

\* two processes, each with one form, and the interpreter's finalizer
NextProcesses ==
    \/ CreateCompany
    \/ \E i \in 1..2, c \in CompanyIds, p \in Periods : Process_load_data(i, c, p)
    \/ \E i \in 1..2, raw \in AmountRaws : Process_save_data_read(i, raw)
    \/ \E i \in 1..2 : Process_save_data_write(i)
    \* the interpreter finalizes the connection objects that nothing refers to
    \* any more, at the return of the call that made them or later
    \/ \E i \in 1..2 :
          /\ proc[i].open > 0
          /\ proc' = [proc EXCEPT ![i].open = 0]
          /\ UNCHANGED <<menu, system_control, schema, company, decision, financial_statement, ui, writes>>

SpecProcesses == Init /\ [][NextProcesses]_vars

Next == NextProcesses \/ NextInventory \/ NextFinalBalance \/ NextMenu \/ NextFields \/ NextStorage \/ NextCompany \/ NextDecision \/ NextSections \/ NextStatement \/ NextBalance \/ NextCarry \/ NextReads
Spec == Init /\ [][Next]_vars

(***************************************************************************)
(* Properties of the decision document (SpecSections, SpecDecision).       *)
(***************************************************************************)
\* C1: a successful save_cash_flow(c, p, A) makes load_cash_flow(c, p) return A,
\* and the projected-sales save for the same (c, p) leaves what load_cash_flow
\* returns as it was: cash_flow_data is neither dropped nor altered.
C1_CashFlowSurvivesProjectedSave ==
    [][\A c \in CompanyIds, p \in Periods :
        /\ \A raw \in CashRaws :
              (ui'.op = "save_cash_flow" /\ CashFlowUI_save_cash_flow(c, p, raw) /\ ui'.ret = TRUE)
              => load_cash_flow(c, p)' = PyDict([q \in {CashFlowEntryKey} |-> CashFlowField(raw)])
        /\ ( /\ ui.op = "projected_form" /\ ui.c = c /\ ui.p = p
             /\ \E co \in countries, raw \in AmountRaws : ProjectedSalesUI_save_decisions(co, raw)
             /\ HasRow(decision, <<c, p>>)
             /\ decision[<<c, p>>].j = "obj"
             /\ "cash_flow_data" \in DOMAIN decision[<<c, p>>].m )
           => load_cash_flow(c, p)' = load_cash_flow(c, p)]_vars

\* the projected-sales form has just saved (its TD field still holds the typed
\* text) into a document whose cash_flow_data, saved before, reads back as saved
C1_Witness ==
    /\ ui.op = "projected_form"
    /\ ui.ret.entries[ProjTdKey[<<Home, AllCountries[1]>>]] = <<"1", ",", "5">>
    /\ HasRow(decision, <<ui.c, ui.p>>)
    /\ decision[<<ui.c, ui.p>>].j = "obj"
    /\ {"cash_flow_data", "projected_sales_data"} \subseteq DOMAIN decision[<<ui.c, ui.p>>].m
    /\ load_cash_flow(ui.c, ui.p) = PyDict([q \in {CashFlowEntryKey} |-> PyFloat(70)])

\* C2: every save into the decision document of (c, p) leaves each section of
\* that document other than the one it writes present and unchanged.
C2_SiblingSectionsKept ==
    [][\A c \in CompanyIds, p \in Periods :
        LET old == decision[<<c, p>>]
            new == decision'[<<c, p>>]
            Kept(own) == /\ new.j = "obj"
                         /\ \A sec \in (DOMAIN old.m) \ own :
                                sec \in DOMAIN new.m /\ new.m[sec] = old.m[sec]
        IN (HasRow(decision, <<c, p>>) /\ old.j = "obj") =>
            /\ (\E raw \in CashRaws : CashFlowUI_save_cash_flow(c, p, raw))
                    => Kept({"cash_flow_data"})
            /\ (\E co \in countries, raw \in StockRaws : PreviousPeriodDataUI_save_data(c, p, Home, co, raw))
                    => Kept({"previous_period_data"})
            /\ (\E raw \in AmountRaws : LoanDecisionsUI_save_data(c, p, raw))
                    => Kept({"loan_decisions"})
            /\ (\E raw \in AmountRaws : AdvertisingUI_save_data(c, p, raw))
                    => Kept({"advertising_decisions"})
            /\ (\E raw \in AmountRaws : MarketResearchUI_save_data(c, p, raw))
                    => Kept({"market_research"})
            /\ (\E raw \in AmountRaws : ProductUI_save_data(c, p, raw))
                    => Kept({ProductEntryKey})
            /\ (ui.op = "summary_form" /\ ui.c = c /\ ui.p = p
                /\ \E co \in countries, raw \in AmountRaws : CompanySummaryUI_save_decisions(co, raw))
                    => Kept({"summary_data"})
            /\ (ui.op = "projected_form" /\ ui.c = c /\ ui.p = p
                /\ \E co \in countries, raw \in AmountRaws : ProjectedSalesUI_save_decisions(co, raw))
                    => Kept({"projected_sales_data"})]_vars

(***************************************************************************)
(* Properties of the financial statements (SpecStatement).                 *)
(***************************************************************************)
\* C3: after d was saved over a document stored under the same (company, period,
\* type), the load returns exactly d: the fields of d and no others.
C3_StatementReplaced ==
    (ui.op = "save_statement" /\ ui.ret.replaced)
    => /\ LoadStatement(ui.c, ui.p, ui.ret.type) = ui.ret.data
       /\ DOMAIN LoadStatement(ui.c, ui.p, ui.ret.type).d = DOMAIN ui.ret.data.d

\* the raw-material document was saved over a stored cash document
C3_Witness ==
    /\ ui.op = "save_statement"
    /\ ui.ret.replaced
    /\ writes = 2
    /\ ui.ret.data = PyDict([q \in {materia_prima_key} |-> PyFloat(70)])
    /\ Cardinality(DOMAIN financial_statement) = 1

\* C4: after a statement save of d, the load of the same (company, period, type)
\* returns a document that holds every key of d with the value saved.
C4_StatementRoundTrip ==
    ui.op = "save_statement"
    => /\ IsDict(LoadStatement(ui.c, ui.p, ui.ret.type))
       /\ \A key \in DOMAIN ui.ret.data.d :
              /\ key \in DOMAIN LoadStatement(ui.c, ui.p, ui.ret.type).d
              /\ LoadStatement(ui.c, ui.p, ui.ret.type).d[key] = ui.ret.data.d[key]

\* the cash document was saved into an empty table and reads back
C4_Witness ==
    /\ ui.op = "save_statement"
    /\ ~ui.ret.replaced
    /\ ui.ret.data = PyDict([q \in {disponible_key} |-> PyFloat(12345)])
    /\ LoadStatement(ui.c, ui.p, ui.ret.type) = ui.ret.data

\* C5: a statement save for (c, p, type) leaves the rows of every other type,
\* period and company in place and unchanged.
C5_OtherStatementsKept ==
    [][(ui'.op = "save_statement" /\ SaveStatementStep(ui'.c, ui'.p, ui'.ret.type, ui'.ret.data))
       => \A other \in DOMAIN financial_statement :
              other # <<ui'.c, ui'.p, ui'.ret.type>> =>
                  /\ other \in DOMAIN financial_statement'
                  /\ financial_statement'[other] = financial_statement[other]]_vars

\* two statements are stored that differ in company, period and type
C5_Witness ==
    /\ ui.op = "save_statement"
    /\ \E k1, k2 \in DOMAIN financial_statement :
            k1[1] # k2[1] /\ k1[2] # k2[2] /\ k1[3] # k2[3]

(***************************************************************************)
(* Properties of the opening cash balance (SpecBalance).                   *)
(***************************************************************************)
\* C6: the opening balance computed for (c, P) is the number stored in the field
\* activo_circulante_Disponible of the BALANCE_SHEET row of the same period P,
\* whenever that row exists and the field holds a number.
C6_OpeningBalanceOfSamePeriod ==
    (ui.op \in {"get_initial_balance", "get_initial_balance_consulta"}
        /\ HasRow(financial_statement, <<ui.c, ui.p, "BALANCE_SHEET">>))
    => LET text == financial_statement[<<ui.c, ui.p, "BALANCE_SHEET">>]
       IN (text.j = "obj" /\ disponible_key \in DOMAIN text.m /\ text.m[disponible_key].j = "num")
          => ui.ret = FloatOfStr(text.m[disponible_key].lit)

\* the balance of period 1 was asked for and is the cash figure of the balance
\* sheet of period 1, while period 0 has no balance sheet
C6_Witness ==
    /\ ui.op = "get_initial_balance"
    /\ ui.p = 1
    /\ ui.ret = PyFloat(12345)
    /\ ~HasRow(financial_statement, <<ui.c, 0, "BALANCE_SHEET">>)

\* C7: get_initial_balance never raises, and returns 0.0 when there is no
\* BALANCE_SHEET row, when the stored text is not JSON, and when the field
\* activo_circulante_Disponible is missing, null or not a number.
C7_OpeningBalanceDefault ==
    ui.op \in {"get_initial_balance", "get_initial_balance_consulta"}
    => /\ ~IsRaise(ui.ret)
       /\ IsFloat(ui.ret)
       /\ ~HasRow(financial_statement, <<ui.c, ui.p, "BALANCE_SHEET">>) => ui.ret = PyFloat(0)
       /\ HasRow(financial_statement, <<ui.c, ui.p, "BALANCE_SHEET">>)
          => LET text == financial_statement[<<ui.c, ui.p, "BALANCE_SHEET">>]
             IN ( \/ text.j = "malformed"
                  \/ /\ text.j = "obj"
                     /\ \/ disponible_key \notin DOMAIN text.m
                        \/ text.m[disponible_key].j = "null"
                        \/ /\ text.m[disponible_key].j = "str"
                           /\ IsRaise(FloatOfStr(text.m[disponible_key].lit)) )
                => ui.ret = PyFloat(0)

\* the balance was asked for over a row whose text is not JSON, and is 0.0
C7_Witness ==
    /\ ui.op = "get_initial_balance"
    /\ HasRow(financial_statement, <<ui.c, ui.p, "BALANCE_SHEET">>)
    /\ financial_statement[<<ui.c, ui.p, "BALANCE_SHEET">>] = Malformed
    /\ ui.ret = PyFloat(0)

(***************************************************************************)
(* Properties of the period carry-forward (SpecCarry, SpecReads).          *)
(***************************************************************************)
\* C8: after the projected-sales form has loaded period P, the prior-period
\* stock of each product line and country is the number stored for it in
\* summary_data of the document of period P, and 0.0 when that document, that
\* section or that field is absent or null.
C8_StockFromSummaryOfSamePeriod ==
    ui.op \in {"projected_form", "projected_consulta"}
    => \A x \in Pairs :
         LET key == ProjStockKey[x]
             value == StockGet(ui.ret.stock, key)
         IN IF ~HasRow(decision, <<ui.c, ui.p>>) THEN value = PyFloat(0)
            ELSE LET text == decision[<<ui.c, ui.p>>]
                 IN text.j = "obj" =>
                      IF "summary_data" \notin DOMAIN text.m THEN value = PyFloat(0)
                      ELSE LET section == text.m["summary_data"]
                           IN /\ section.j = "null" => value = PyFloat(0)
                              /\ section.j = "obj" =>
                                   IF key \notin DOMAIN section.m THEN value = PyFloat(0)
                                   ELSE /\ section.m[key].j = "null" => value = PyFloat(0)
                                        /\ section.m[key].j = "num"
                                               => value = FloatOfStr(section.m[key].lit)

\* the form has loaded period 1 and holds the stock 12.5 that summary_data of
\* period 1 stores, while period 0 has no document
C8_Witness ==
    /\ ui.op = "projected_form"
    /\ ui.p = 1
    /\ ~ui.ret.err
    /\ StockGet(ui.ret.stock, ProjStockKey[<<Home, AllCountries[1]>>]) = PyFloat(125)
    /\ ~HasRow(decision, <<ui.c, 0>>)

\* C9: when the summary form has loaded period P+1 and no summary_data is saved
\* for P+1, the label 'Stock Periodo Anterior' of a product line and country
\* shows the finished-goods stock that the previous-period data form saved under
\* previous_period_data of period P for that product line and country.
C9_CarriedStockShown ==
    (ui.op = "summary_form" /\ ui.p >= 1 /\ HasRow(decision, <<ui.c, ui.p - 1>>))
    => LET prev == decision[<<ui.c, ui.p - 1>>]
           unsaved == \/ ~HasRow(decision, <<ui.c, ui.p>>)
                      \/ /\ decision[<<ui.c, ui.p>>].j = "obj"
                         /\ "summary_data" \notin DOMAIN decision[<<ui.c, ui.p>>].m
       IN ( /\ unsaved
            /\ prev.j = "obj"
            /\ "previous_period_data" \in DOMAIN prev.m
            /\ prev.m["previous_period_data"].j = "obj" )
          => \A x \in Pairs :
                LET produced == PrevEntryKey[x, item_productos_terminados]
                    section == prev.m["previous_period_data"].m
                IN (produced \in DOMAIN section /\ section[produced].j = "num")
                   => ui.ret.display[SummaryDisplayKey[x]] = section[produced].lit

\* C10: a step of get_initial_balance or of load_decisions_from_db leaves the
\* tables company, decision and financial_statement as they were.
C10_ReadsDoNotWrite ==
    [][( \/ /\ ui'.op = "get_initial_balance"
            /\ CashFlowUI_get_initial_balance(ui'.c, ui'.p)
         \/ /\ ui'.op = "get_initial_balance_consulta"
            /\ CashFlowConsultaUI_get_initial_balance(ui'.c, ui'.p)
         \/ /\ ui'.op = "projected_form"
            /\ ProjectedSalesUI_load_decisions_from_db(ui'.c, ui'.p)
         \/ /\ ui'.op = "projected_consulta"
            /\ ProjectedSalesConsultaUI_load_decisions_from_db(ui'.c, ui'.p)
         \/ /\ ui'.op = "summary_form"
            /\ CompanySummaryUI_load_decisions_from_db(ui'.c, ui'.p) )
       => /\ company' = company
          /\ decision' = decision
          /\ financial_statement' = financial_statement]_vars

\* the opening balance was computed over stored rows of both tables, for a
\* period that has a balance sheet
C10_Witness ==
    /\ ui.op = "get_initial_balance"
    /\ HasRow(financial_statement, <<ui.c, ui.p, "BALANCE_SHEET">>)
    /\ HasRow(decision, <<ui.c, ui.p>>)
    /\ writes = 2

(***************************************************************************)
(* Properties of the company registry, the turn counter and the schema     *)
(* (SpecCompany).                                                          *)
(***************************************************************************)
\* C11: create_company with a name that is not stored returns success and
\* stores it; with a name that is stored it returns the failure result, not an
\* exception, and stores nothing; this holds of the controller's and of the
\* product model's create_company, and no two company rows ever share a name.
C11_DuplicateNameRejected ==
    [][LET stored(n) == \E i \in 1..Len(company) : company[i].name = n
           Stored(n) == /\ Len(company') = Len(company) + 1
                        /\ \A i \in 1..Len(company) : company'[i] = company[i]
                        /\ company'[Len(company')].name = n
       IN /\ ui'.op = "create_company"
               => \A name \in TypedNames :
                    (validate_company_name(name).valid /\ MainController_create_company(name))
                    => IF stored(validate_company_name(name).name)
                       THEN ui'.ret = FALSE /\ company' = company
                       ELSE ui'.ret = TRUE /\ Stored(validate_company_name(name).name)
          /\ ui'.op = "create_company_product"
               => \A name \in TypedNames :
                    BusinessGameModel_create_company(name)
                    => IF stored(name)
                       THEN ui'.ret = [k |-> "bool", v |-> FALSE] /\ company' = company
                       ELSE ui'.ret = [k |-> "bool", v |-> TRUE] /\ Stored(name)
          /\ \A i, k \in 1..Len(company') : company'[i].name = company'[k].name => i = k]_vars

C13_PeriodMonotonic ==
    [][\A c \in CompanyIds :
          /\ get_company_info(c)'.current_period >= get_company_info(c).current_period
          /\ ( /\ ui'.op = "save_product" /\ ui'.c = c /\ ui'.ret.fault = "none"
               /\ \E raw \in AmountRaws : ProductUI_save_data_fault(c, ui'.p, raw, "none") )
                => get_company_info(c)'.current_period = get_company_info(c).current_period + 1]_vars

\* a company has been advanced twice
C13_Witness ==
    /\ ui.op = "save_product"
    /\ ui.ret.fault = "none"
    /\ ui.ret.before = 1
    /\ get_company_info(ui.c).current_period = 2

\* C14: after the product form's save handler, the current_period of the
\* company has moved only if save_decisions stored the document of the period
\* and reported success; when the save failed the current_period is as before.
C14_IncrementAfterSave ==
    ui.op = "save_product"
    => /\ get_company_info(ui.c).current_period # ui.ret.before
            => /\ ui.ret.fault # "save"
               /\ HasRow(decision, <<ui.c, ui.p>>)
       /\ ui.ret.fault = "save"
            => get_company_info(ui.c).current_period = ui.ret.before

\* the save of the product form has failed for a company that was advanced
\* before, and the counter is as it was
C14_Witness ==
    /\ ui.op = "save_product"
    /\ ui.ret.fault = "save"
    /\ ui.ret.before = 1
    /\ get_company_info(ui.c).current_period = 1

\* C15: a step of a schema initializer raises no error, leaves every table
\* that existed with the definition it had, makes no table a second time, and
\* leaves the rows of company, decision and financial_statement unchanged; run
\* again, the same initializer changes nothing.
C15_SchemaInitIdempotent ==
    [][(ui'.op = "init_schema" /\ InitSchema)
       => /\ company' = company
          /\ decision' = decision
          /\ financial_statement' = financial_statement
          /\ Len(schema') >= Len(schema)
          /\ \A i \in 1..Len(schema) : schema'[i] = schema[i]
          /\ \A i, k \in 1..Len(schema') : schema'[i].name = schema'[k].name => i = k
          /\ init_schema(schema', ui'.ret, Len(SchemaTables[ui'.ret])) = schema']_vars

\* the initializer of db.py has run over a database that holds a company and a
\* decision document; the three tables made by main1 are still the first ones
C15_Witness ==
    /\ ui.op = "init_schema"
    /\ ui.ret = "db"
    /\ Len(schema) = 6
    /\ schema[1].by = "main1"
    /\ Len(company) >= 1
    /\ DOMAIN decision # {}


(***************************************************************************)
(* Properties of the decision store under faults (SpecStorage).            *)
(***************************************************************************)
\* C16: the decision table holds one row per (company_id, period) -- it is a
\* function of the pair, as PRIMARY KEY (company_id, period) makes it -- and
\* the row is the document of the most recent successful write of the pair:
\* a save that reports success leaves the pair's row with the section it was
\* handed and every other row as it was, a save that fails and a load leave
\* the table as it was.
C16_LastWriteWins ==
    [][LET k == <<ui'.c, ui'.p>>
           others == /\ DOMAIN decision' = (DOMAIN decision) \cup {k}
                     /\ \A q \in (DOMAIN decision) \ {k} : decision'[q] = decision[q]
       IN CASE ui'.op = "cash_flow_save" ->
                 IF ui'.ret.result.v
                 THEN /\ others
                      /\ decision'[k].j = "obj"
                      /\ "cash_flow_data" \in DOMAIN decision'[k].m
                      /\ decision'[k].m["cash_flow_data"] =
                            JsonObj([q \in {CashFlowEntryKey} |-> json_dumps(CashFlowField(ui'.ret.raw))])
                 ELSE decision' = decision
            [] ui'.op = "loan_save" ->
                 IF ui'.ret.result = [k |-> "bool", v |-> TRUE]
                 THEN /\ others
                      /\ decision'[k].j = "obj"
                      /\ "loan_decisions" \in DOMAIN decision'[k].m
                      /\ decision'[k].m["loan_decisions"].m["long_term_amount"] =
                            json_dumps(_get_numeric_value_loan(ui'.ret.raw))
                 ELSE decision' = decision
            [] ui'.op = "save_product" ->
                 IF ui'.ret.fault # "save"
                 THEN /\ others
                      /\ decision'[k].j = "obj"
                      /\ DOMAIN decision'[k].m = {ProductEntryKey}
                 ELSE decision' = decision
            [] ui'.op \in {"load_cash_flow", "load_previous_period_data",
                           "load_decision", "load_decisions", "create_company"} ->
                 decision' = decision
            [] OTHER -> TRUE]_vars

\* a cash-flow save over a pair that had a row has replaced the field
C16_Witness ==
    /\ ui.op = "cash_flow_save"
    /\ ui.ret.had_row
    /\ ui.ret.result.v
    /\ ui.ret.raw = <<"7">>
    /\ decision[<<ui.c, ui.p>>].m["cash_flow_data"].m[CashFlowEntryKey] = JsonNum(<<"7", ".", "0">>)
    /\ writes = 2

\* C18: a section load over a pair without row, and over a row whose document
\* has no such section, hands back the absent result (None or the empty
\* mapping, which the caller's "if data:" takes alike) and raises nothing.
C18_AbsentSection ==
    ui.op \in {"load_cash_flow", "load_previous_period_data"} =>
        LET k == <<ui.c, ui.p>>
            section == IF ui.op = "load_cash_flow" THEN "cash_flow_data" ELSE "previous_period_data"
            lacks == \/ ~HasRow(decision, k)
                     \/ decision[k].j = "obj" /\ section \notin DOMAIN decision[k].m
        IN lacks => /\ ~IsRaise(ui.ret)
                    /\ IsNone(ui.ret) \/ (IsDict(ui.ret) /\ DOMAIN ui.ret.d = {})

\* the cash-flow section was asked of a document that holds other sections
C18_Witness ==
    /\ ui.op = "load_cash_flow"
    /\ HasRow(decision, <<ui.c, ui.p>>)
    /\ decision[<<ui.c, ui.p>>].j = "obj"
    /\ DOMAIN decision[<<ui.c, ui.p>>].m = {"loan_decisions"}
    /\ ui.ret = EmptyDict

\* C19: a load over a row whose payload is not JSON hands its caller a
\* storage failure: a result, not an exception, and not the result of a
\* pair without row (None).
C19_MalformedIsStorageFailure ==
    ui.op \in {"load_cash_flow", "load_previous_period_data", "load_decision", "load_decisions"} =>
        (HasRow(decision, <<ui.c, ui.p>>) /\ decision[<<ui.c, ui.p>>] = Malformed
            => ~IsRaise(ui.ret) /\ ~IsNone(ui.ret))

\* C20: a save whose write failed hands its caller the result False: not
\* True and not an exception.
C20_WriteFailureIsResult ==
    /\ ui.op \in {"cash_flow_save", "loan_save"} /\ ui.ret.fault = "write"
            => ui.ret.result = [k |-> "bool", v |-> FALSE]
    /\ ui.op = "save_product" /\ ui.ret.fault = "save"
            => ui.ret.result = [k |-> "bool", v |-> FALSE]

(***************************************************************************)
(* Properties of the field coercion on save (SpecFields).                  *)
(***************************************************************************)
\* C17: after a save of a decision section, the field the user typed into is
\* stored as a JSON number when float() takes the typed text, and as the
\* typed text itself when it does not; in the cash-flow, advertising, loan
\* and market-research forms.
C17_FieldsCoerced ==
    [][\A c \in CompanyIds, p \in Periods, raw \in CashRaws :
          LET f == FloatOfStr(raw)
              stored == IF IsRaise(f) THEN JsonStr(raw) ELSE JsonNum(FloatRepr(f.v))
              doc == decision'[<<c, p>>].m
          IN /\ ui'.op = "save_cash_flow" /\ CashFlowUI_save_cash_flow(c, p, raw)
                    => doc["cash_flow_data"].m[CashFlowEntryKey] = stored
             /\ ui'.op = "save_advertising" /\ AdvertisingUI_save_data(c, p, raw)
                    => doc["advertising_decisions"].m["advertising_Revista_PC_Actualidad_Argentina"] = stored
             /\ ui'.op = "save_loan" /\ LoanDecisionsUI_save_data(c, p, raw)
                    => doc["loan_decisions"].m["long_term_amount"] = stored
             /\ ui'.op = "save_market_research" /\ MarketResearchUI_save_data(c, p, raw)
                    => doc["market_research"].m["mr_IM_1a_Potencial_Continente_para_1_Período_Home"] = stored
      ]_vars

(***************************************************************************)
(* Properties of the later forms and of the session.                       *)
(***************************************************************************)
\* C21: whichever create_company inserts a company, the new row has the one
\* fixed starting cash balance, current_period 0 and exchange rate 950.0.
C21_SameStartingRow ==
    [][Len(company') > Len(company) =>
          LET row == company'[Len(company')]
          IN /\ row.cash_usd = StartingCash
             /\ row.current_period = InitialPeriod
             /\ row.reporting_currency_exchange_rate = DefaultExchangeRate]_vars

\* C23: when the summary form loads period P >= 1 of a company that has no
\* decision row for P - 1, no error is shown, and every "Stock Período
\* Anterior" label shows the value summary_data of P holds for it, or 0.
C23_SummaryWithoutPriorPeriod ==
    [][(/\ ui'.op = "summary_form"
        /\ decision' = decision
        /\ ui'.p >= 1
        /\ ~HasRow(decision, <<ui'.c, ui'.p - 1>>))
       => /\ ~ui'.ret.err
          /\ LET current == LoadPayload(ui'.c, ui'.p, EmptyDict)
                 summary_data == IF IsDict(current) THEN DictGet(current, "summary_data", EmptyDict)
                                 ELSE EmptyDict
             IN IsDict(summary_data) =>
                   \A q \in SummaryDisplayKeys :
                       ui'.ret.display[q] =
                           IF q \in DOMAIN summary_data.d /\ ~IsNone(summary_data.d[q])
                           THEN PyStrOf(summary_data.d[q]) ELSE Zero]_vars

\* C24: after a product-decision save that went through, the period the
\* product form uses for its next save (the saved period plus one) is the
\* current_period stored for the company.
C24_FormPeriodIsStoredPeriod ==
    ui.op = "save_product" /\ ui.ret.fault = "none"
        => ui.p + 1 = get_company_info(ui.c).current_period

\* C27: a child window is never constructed with company_id None: every
\* opener of the main menu is refused until a company has been loaded.
C27_NoFormWithoutCompany ==
    ui.op \in {"ProductUI", "LoanDecisionsUI", "ControlSistemaUI", "PhysicalInventoryUI"}
        => ui.c # 0

\* C25: after "Guardar" of the sales-by-country form with model M selected,
\* the statement SALES_M of the company and period holds the value typed
\* into the form, for M = HOME and for M = PROFESSIONAL.
C25_SalesStoredUnderModel ==
    ui.op = "save_sales" =>
        LET type == IF ui.ret.model = "HOME" THEN "SALES_HOME" ELSE "SALES_PROFESSIONAL"
        IN /\ HasRow(financial_statement, <<ui.c, ui.p, type>>)
           /\ LET doc == financial_statement[<<ui.c, ui.p, type>>]
              IN /\ doc.j = "obj"
                 /\ \E q \in DOMAIN doc.m : doc.m[q] = json_dumps(CashFlowField(ui.ret.raw))

C22_NoConnectionLeftOpen == \A i \in 1..2 : proc[i].open = 0

\* C28: when the loan form of one process and the advertising form of
\* another save for the same company and period, each write keeps the
\* section the other process has stored, so that after both saves the
\* document holds both sections.
C28_ConcurrentSectionsKept ==
    [][\A i \in 1..2 :
          (ui'.op = "save_data_write" /\ ui'.ret.i = i /\ writes' = writes + 1
           /\ HasRow(decision, <<proc[i].c, proc[i].p>>)) =>
              LET old == decision[<<proc[i].c, proc[i].p>>]
                  new == decision'[<<proc[i].c, proc[i].p>>]
                  other == IF i = 1 THEN "advertising_decisions" ELSE "loan_decisions"
              IN (old.j = "obj" /\ other \in DOMAIN old.m) =>
                    (new.j = "obj" /\ other \in DOMAIN new.m /\ new.m[other] = old.m[other])
      ]_vars

\* C26: the save of a merging form starts from the document as stored when
\* the save begins, whatever the form read when it was opened: every section
\* of another form that is in the store at that moment is in the document
\* the save writes.
C26_SaveReadsStoredDocument ==
    [][\A i \in 1..2 :
          (ui'.op = "save_data_read" /\ ui'.ret.i = i /\ proc[i].pc = "form" /\ proc'[i].pc = "read"
           /\ HasRow(decision, <<proc[i].c, proc[i].p>>)) =>
              LET stored == json_loads(decision[<<proc[i].c, proc[i].p>>])
                  other == IF i = 1 THEN "advertising_decisions" ELSE "loan_decisions"
                  payload == proc'[i].payload
              IN (IsDict(stored) /\ other \in DOMAIN stored.d) =>
                    (IsDict(payload) /\ other \in DOMAIN payload.d /\ payload.d[other] = stored.d[other])
      ]_vars

\* the loan form was opened on a period without a document, the advertising
\* form saved, then the loan form saved: both sections are stored
C26_Witness ==
    /\ ui.op = "save_data_write" /\ ui.ret.i = 1
    /\ IsNone(proc[1].seen)
    /\ HasRow(decision, <<proc[1].c, proc[1].p>>)
    /\ {"loan_decisions", "advertising_decisions"} \subseteq DOMAIN decision[<<proc[1].c, proc[1].p>>].m

====
